---- MODULE Spec2Model ----
(***************************************************************************)
(* Model of the analysis and scoring engine of the marketplace scraper     *)
(* (src/advanced_analyzer.py, class AdvancedAnalyzer), specification Spec; *)
(* of the search API with its sqlite store and background search task      *)
(* (src/api), specification SpecApi; of the multi-platform search loop     *)
(* (src/multi_platform_scraper.py), specification SpecPlatforms; and of the*)
(* request retry loop (src/base_scraper.py), specification SpecRequest.    *)
(* Each specification holds the variables of the other parts fixed.        *)
(*                                                                         *)
(* A product is a Python dict: here a function whose DOMAIN is the set of  *)
(* keys the dict has, so a missing field is a key outside the DOMAIN and   *)
(* dict.get(key, default) is Get.  Prices are whole ringgit, ratings are   *)
(* kept in tenths of a star (45 is 4.5), sold counts are naturals.  Means, *)
(* medians and scores are exact rationals [num, den] in lowest terms;      *)
(* floating-point rounding is not modelled.  Product names are sequences   *)
(* of one-character strings so that lower() and the substring test of the  *)
(* categorizer are computed.  Logging has no effect on the results and is  *)
(* left out.                                                               *)
(***************************************************************************)
EXTENDS Integers, Sequences, FiniteSets, TLC

VARIABLES products, op, args, report, calls, raised,
          search_history, search_results, sqlite_sequence,
          background_tasks, messages,
          scrapers, max_retries, attempt

\* the analyzer and its caller
analyzerVars == <<products, op, args, report, calls, raised>>

\* the store, the background tasks and the progress messages of the API
apiVars == <<search_history, search_results, sqlite_sequence,
             background_tasks, messages>>

\* the platform scrapers: the initialized ones, the retry limit, the retry
\* loop's counter
scraperVars == <<scrapers, max_retries, attempt>>

vars == <<analyzerVars, apiVars, scraperVars>>

---------------------------------------------------------------------------
(* Bounds of the model *)

\* longest catalogue page the caller builds its list from
MaxLen == 3
\* the page is passed once or MaxCopies times over (MaxLen * MaxCopies > 20
\* reaches the saturation of the availability score)
MaxCopies == 7
\* largest top_n an operation is called with
MaxTopN == 2

---------------------------------------------------------------------------
(* Exact rational arithmetic *)

RECURSIVE GCD(_, _)
GCD(a, b) == IF b = 0 THEN a ELSE GCD(b, a % b)

Abs(n) == IF n < 0 THEN -n ELSE n

\* the rational n/d (d > 0) in lowest terms
Rat(n, d) ==
    LET g == GCD(Abs(n), d)
    IN  [num |-> n \div g, den |-> d \div g]

RatInt(n) == [num |-> n, den |-> 1]
RatAdd(x, y) == Rat(x.num * y.den + y.num * x.den, x.den * y.den)
RatSub(x, y) == Rat(x.num * y.den - y.num * x.den, x.den * y.den)
RatMul(x, y) == Rat(x.num * y.num, x.den * y.den)
\* x / y for y > 0
RatDiv(x, y) == Rat(x.num * y.den, x.den * y.num)
RatLE(x, y) == x.num * y.den <= y.num * x.den
RatLT(x, y) == x.num * y.den < y.num * x.den
RatMin(x, y) == IF RatLE(x, y) THEN x ELSE y
\* int(x) for x >= 0
RatTrunc(x) == x.num \div x.den

---------------------------------------------------------------------------
(* Python built-ins and the statistics module *)

\* dict.get(key, default)
Get(d, key, default) == IF key \in DOMAIN d THEN d[key] ELSE default

\* a sequence given as a function, with its elements computed once
Eager(s) == SubSeq(s, 1, Len(s))

Reverse(s) == Eager([i \in 1..Len(s) |-> s[Len(s) + 1 - i]])

\* s[:n] for n >= 0
Take(s, n) == SubSeq(s, 1, IF n < Len(s) THEN n ELSE Len(s))

RECURSIVE Sum(_)
Sum(s) == IF s = <<>> THEN 0 ELSE Head(s) + Sum(Tail(s))

\* min(s), max(s) of a non-empty sequence of integers
Min(s) == CHOOSE x \in {s[i] : i \in 1..Len(s)} : \A j \in 1..Len(s) : x <= s[j]
Max(s) == CHOOSE x \in {s[i] : i \in 1..Len(s)} : \A j \in 1..Len(s) : x >= s[j]

\* Sort keys are pairs <<rational, integer>> compared lexicographically, as
\* Python compares the tuples (and the plain numbers) used as keys
Key(n) == <<RatInt(n), 0>>
KeyLess(a, b) == RatLT(a[1], b[1]) \/ (a[1] = b[1] /\ a[2] < b[2])

\* The merge of two runs of indices, each in ascending key order: an
\* index of the right run goes first only when its key is less
RECURSIVE MergeRuns(_, _, _)
MergeRuns(keys, left, right) ==
    IF left = <<>> THEN right
    ELSE IF right = <<>> THEN left
    ELSE IF KeyLess(keys[Head(right)], keys[Head(left)])
    THEN <<Head(right)>> \o MergeRuns(keys, left, Tail(right))
    ELSE <<Head(left)>> \o MergeRuns(keys, Tail(left), right)

\* The index order in which a stable ascending merge sort leaves
\* keys[lo..hi]
RECURSIVE StableOrderOf(_, _, _)
StableOrderOf(keys, lo, hi) ==
    IF lo > hi THEN <<>>
    ELSE IF lo = hi THEN <<lo>>
    ELSE LET mid == (lo + hi) \div 2
         IN  MergeRuns(keys, StableOrderOf(keys, lo, mid),
                             StableOrderOf(keys, mid + 1, hi))

\* The index order in which a stable ascending sort leaves keys[1..n]:
\* an index stays behind every earlier index whose key is not greater
StableOrder(keys, n) == StableOrderOf(keys, 1, n)

\* sorted(s) with the key of s[i] given as keys[i], ascending and stable
SortedAscending(s, keys) ==
    LET ord == StableOrder(keys, Len(s))
    IN  Eager([pos \in 1..Len(s) |-> s[ord[pos]]])

\* fault variant: a descending sort that reverses the ascending result, so
\* that equal keys come out in reverse input order
SortedReversingTies(s, keys, reverse) ==
    IF reverse
    THEN Reverse(SortedAscending(s, keys))
    ELSE SortedAscending(s, keys)

\* sorted(s, key=..., reverse=r): with reverse the list is reversed, sorted
\* ascending and reversed again, which keeps equal keys in input order
Sorted(s, keys, reverse) ==
    IF reverse
    THEN Reverse(SortedAscending(Reverse(s), Reverse(keys)))
    ELSE SortedAscending(s, keys)

\* sorted(s) of a sequence of integers
SortedInts(s) == SortedAscending(s, Eager([i \in 1..Len(s) |-> Key(s[i])]))

\* statistics.mean of a non-empty sequence of integers
Mean(s) == Rat(Sum(s), Len(s))

\* statistics.median of a non-empty sequence of integers
Median(s) ==
    LET d == SortedInts(s)
        n == Len(s)
    IN  IF n % 2 = 1
        THEN RatInt(d[(n \div 2) + 1])
        ELSE Rat(d[n \div 2] + d[(n \div 2) + 1], 2)

\* statistics.variance (sample, n - 1) of two or more integers; the source
\* reports its square root, statistics.stdev, which is kept here squared
Variance(s) ==
    LET n == Len(s)
        sq == [i \in 1..n |-> s[i] * s[i]]
    IN  Rat(n * Sum(sq) - Sum(s) * Sum(s), n * (n - 1))

\* the position of the first element of keys that is maximal: max(..., key=)
\* and Counter.most_common(1) return the first maximal element
FirstMaxIndex(keys) ==
    CHOOSE i \in 1..Len(keys) :
        /\ \A j \in 1..Len(keys) : keys[j] <= keys[i]
        /\ \A j \in 1..(i - 1) : keys[j] < keys[i]

\* the distinct elements of s in the order of their first occurrence: the
\* iteration order of a dict (or Counter) filled while walking s
RECURSIVE KeysInOrder(_)
KeysInOrder(s) ==
    IF s = <<>> THEN <<>>
    ELSE LET front == KeysInOrder(SubSeq(s, 1, Len(s) - 1))
             last == s[Len(s)]
         IN  IF \E i \in 1..Len(front) : front[i] = last
             THEN front
             ELSE Append(front, last)

Range(s) == {s[i] : i \in 1..Len(s)}

---------------------------------------------------------------------------
(* Product records: the catalogue the input lists are drawn from *)

\* An optional Python value is a set with at most one element
None == {}
Some(v) == {v}

Name1 == <<"U", "S", "B", " ", "B", "o", "t", "t", "l", "e">>
Name2 == <<"W", "a", "t", "e", "r", " ", "B", "o", "t", "t", "l", "e">>
Name3 == <<"G", "i", "f", "t", " ", "C", "a", "r", "d">>
Name4 == <<"T", "O", "Y">>

Catalogue == {
    [name |-> Name1, price |-> 30, rating |-> 50, sold |-> 5,
     platform |-> "shopee", shop_id |-> "s1", shop_location |-> "KL"],
    [name |-> Name2, price |-> 50, rating |-> 40, sold |-> 5,
     platform |-> "lazada", shop_id |-> "s2"],
    [name |-> <<>>, price |-> 400, rating |-> 25, sold |-> 2000,
     platform |-> "shopee", shop_id |-> "s1"],
    [price |-> 0, rating |-> 50],
    [name |-> Name4, price |-> 20, rating |-> 0, sold |-> 0,
     platform |-> "lazada", shop_id |-> "s2"],
    [name |-> Name3, rating |-> 30, sold |-> 7, platform |-> "lazada"]
}

\* the lists a caller can pass: a page of at most MaxLen catalogue records,
\* once or MaxCopies times over
RECURSIVE Repeat(_, _)
Repeat(s, k) == IF k = 0 THEN <<>> ELSE s \o Repeat(s, k - 1)

Pages == UNION {[1..n -> Catalogue] : n \in 0..MaxLen}

ProductLists == {Repeat(page, k) : page \in Pages, k \in {1, MaxCopies}}

\* max_price arguments (None: no limit), min_price and top_n arguments
MaxPrices == {None, Some(50)}
MinPrices == {0, 40}
TopNs == 0..MaxTopN

\* the top_n of analyze_affordable_bestsellers when the caller gives none
DefaultTopN == 50
BestsellerTopNs == TopNs \cup {DefaultTopN}

---------------------------------------------------------------------------
(* AdvancedAnalyzer *)

price_of(product) == Get(product, "price", 0)
rating_of(product) == Get(product, "rating", 0)
sold_of(product) == Get(product, "sold", 0)
\* fault variant: a record without a platform gets an empty key
platform_of_blank(product) == Get(product, "platform", "")

platform_of(product) == Get(product, "platform", "unknown")
shop_id_of(product) == Get(product, "shop_id", "unknown")

\* [p.get(field, 0) for p in products]
Column(ps, field) == Eager([i \in 1..Len(ps) |-> Get(ps[i], field, 0)])

\* [p.get(field, 0) for p in products if p.get(field, 0) > 0]
ValidColumn(ps, field) ==
    Column(SelectSeq(ps, LAMBDA p : Get(p, field, 0) > 0), field)

\* a rating given in tenths of a star, in stars
Stars(x) == RatDiv(x, RatInt(10))

\* fault variant: the filter without its test price > 0
filter_by_price_range_keep_unpriced(ps, max_price, min_price) ==
    SelectSeq(ps, LAMBDA product :
        /\ min_price <= price_of(product)
        /\ (max_price = None \/ \A m \in max_price : price_of(product) <= m))

filter_by_price_range(ps, max_price, min_price) ==
    SelectSeq(ps, LAMBDA product :
        /\ price_of(product) > 0
        /\ min_price <= price_of(product)
        /\ (max_price = None \/ \A m \in max_price : price_of(product) <= m))

rank_by_sales(ps, descending) ==
    Sorted(ps, Eager([i \in 1..Len(ps) |-> Key(sold_of(ps[i]))]), descending)

analyze_prices(ps) ==
    LET prices == ValidColumn(ps, "price")
    IN  IF prices = <<>>
        THEN [error |-> "No valid price data found"]
        ELSE [average_price |-> Mean(prices),
              median_price |-> Median(prices),
              min_price |-> Min(prices),
              max_price |-> Max(prices),
              price_range |-> Max(prices) - Min(prices),
              price_std |-> IF Len(prices) > 1 THEN Variance(prices)
                                               ELSE RatInt(0),
              total_products_with_price |-> Len(prices)]

\* fault variant: the high-rated percentage taken of the group size instead
\* of the number of valid ratings
analyze_ratings_of_group_size(ps) ==
    LET ratings == ValidColumn(ps, "rating")
        high_rated == SelectSeq(ratings, LAMBDA r : r >= 40)
        low_rated == SelectSeq(ratings, LAMBDA r : r < 30)
    IN  IF ratings = <<>>
        THEN [error |-> "No valid rating data found"]
        ELSE [average_rating |-> Stars(Mean(ratings)),
              median_rating |-> Stars(Median(ratings)),
              min_rating |-> Stars(RatInt(Min(ratings))),
              max_rating |-> Stars(RatInt(Max(ratings))),
              high_rated_count |-> Len(high_rated),
              low_rated_count |-> Len(low_rated),
              high_rated_percentage |-> Rat(Len(high_rated) * 100, Len(ps)),
              total_products_with_rating |-> Len(ratings),
              high_rated_products |->
                  Take(SelectSeq(ps, LAMBDA p : rating_of(p) >= 40), 10)]

analyze_ratings(ps) ==
    LET ratings == ValidColumn(ps, "rating")
        high_rated == SelectSeq(ratings, LAMBDA r : r >= 40)
        low_rated == SelectSeq(ratings, LAMBDA r : r < 30)
    IN  IF ratings = <<>>
        THEN [error |-> "No valid rating data found"]
        ELSE [average_rating |-> Stars(Mean(ratings)),
              median_rating |-> Stars(Median(ratings)),
              min_rating |-> Stars(RatInt(Min(ratings))),
              max_rating |-> Stars(RatInt(Max(ratings))),
              high_rated_count |-> Len(high_rated),
              low_rated_count |-> Len(low_rated),
              high_rated_percentage |-> Rat(Len(high_rated) * 100, Len(ratings)),
              total_products_with_rating |-> Len(ratings),
              high_rated_products |->
                  Take(SelectSeq(ps, LAMBDA p : rating_of(p) >= 40), 10)]

\* fault variant: the sales statistics taken over every record, the ones
\* with sold = 0 included
analyze_sales_all_records(ps) ==
    LET sales == Column(ps, "sold")
    IN  IF sales = <<>>
        THEN [error |-> "No valid sales data found"]
        ELSE [total_sales |-> Sum(sales),
              average_sales |-> Mean(sales),
              median_sales |-> Median(sales),
              min_sales |-> Min(sales),
              max_sales |-> Max(sales),
              sales_range |-> Max(sales) - Min(sales),
              bestseller_threshold |-> Median(sales),
              total_products_sold |-> Len(sales)]

\* fault variant: the bestseller threshold is the median over every record,
\* the ones with sold = 0 included
analyze_sales_threshold_all_records(ps) ==
    LET sales == ValidColumn(ps, "sold")
    IN  IF sales = <<>>
        THEN [error |-> "No valid sales data found"]
        ELSE [total_sales |-> Sum(sales),
              average_sales |-> Mean(sales),
              median_sales |-> Median(sales),
              min_sales |-> Min(sales),
              max_sales |-> Max(sales),
              sales_range |-> Max(sales) - Min(sales),
              bestseller_threshold |-> Median(Column(ps, "sold")),
              total_products_sold |-> Len(sales)]

analyze_sales(ps) ==
    LET sales == ValidColumn(ps, "sold")
    IN  IF sales = <<>>
        THEN [error |-> "No valid sales data found"]
        ELSE [total_sales |-> Sum(sales),
              average_sales |-> Mean(sales),
              median_sales |-> Median(sales),
              min_sales |-> Min(sales),
              max_sales |-> Max(sales),
              sales_range |-> Max(sales) - Min(sales),
              bestseller_threshold |-> Median(sales),
              total_products_sold |-> Len(sales)]

\* the grouping keys of the records of ps, position by position
platform_keys(ps) == Eager([i \in 1..Len(ps) |-> platform_of(ps[i])])
shop_id_keys(ps) == Eager([i \in 1..Len(ps) |-> shop_id_of(ps[i])])

\* the positions 1..n in order
Indices(n) == Eager([i \in 1..n |-> i])

\* fault variant: a group keeps only the last record with its key (the
\* list is overwritten instead of appended to)
GroupLastOnly(ps, keys, k) ==
    LET at == SelectSeq(Indices(Len(ps)), LAMBDA i : keys[i] = k)
    IN  IF at = <<>> THEN <<>> ELSE <<ps[at[Len(at)]]>>

\* the records of ps whose grouping key (keys[i] for ps[i]) is k, in input
\* order: the list the grouping loops build under the key k
Group(ps, keys, k) ==
    LET at == SelectSeq(Indices(Len(ps)), LAMBDA i : keys[i] = k)
    IN  Eager([j \in 1..Len(at) |-> ps[at[j]]])

\* the grouping keys in dict order (order of first occurrence)
GroupKeys(keys) == KeysInOrder(keys)

merchant_stats_of(shop_products) ==
    LET prices == ValidColumn(shop_products, "price")
        ratings == ValidColumn(shop_products, "rating")
    IN  [product_count |-> Len(shop_products),
         avg_price |-> IF prices # <<>> THEN Mean(prices) ELSE RatInt(0),
         avg_rating |-> IF ratings # <<>> THEN Stars(Mean(ratings))
                                          ELSE RatInt(0),
         location |-> Get(shop_products[1], "shop_location", ""),
         platform |-> Get(shop_products[1], "platform", "")]

analyze_merchants(ps) ==
    LET by_shop == shop_id_keys(ps)
        shop_ids == GroupKeys(by_shop)
        merchant_stats == [s \in Range(shop_ids) |->
                              merchant_stats_of(Group(ps, by_shop, s))]
        keys == [i \in 1..Len(shop_ids) |->
                    <<merchant_stats[shop_ids[i]].avg_rating,
                      merchant_stats[shop_ids[i]].product_count>>]
        top_merchants == Take(Sorted(shop_ids, keys, TRUE), 5)
        sizes == [i \in 1..Len(shop_ids) |->
                     Len(Group(ps, by_shop, shop_ids[i]))]
    IN  [total_merchants |-> Len(shop_ids),
         merchant_stats |-> merchant_stats,
         top_merchants |-> [s \in Range(top_merchants) |-> merchant_stats[s]],
         avg_products_per_merchant |-> Mean(sizes)]

\* Counter(...).most_common(1)[0] of a non-empty Counter with the given key
\* order: the first key with the greatest count, and that count
most_common(keys, counts) ==
    LET i == FirstMaxIndex([j \in 1..Len(keys) |-> counts[keys[j]]])
    IN  <<keys[i], counts[keys[i]]>>

analyze_platform_breakdown(ps) ==
    LET by_platform == platform_keys(ps)
        platforms == GroupKeys(by_platform)
        platform_counts == [k \in Range(platforms) |->
                               Len(Group(ps, by_platform, k))]
    IN  [platform_distribution |-> platform_counts,
         total_platforms |-> Len(platforms),
         dominant_platform |->
             IF platforms # <<>>
             THEN Some(most_common(platforms, platform_counts))
             ELSE None]

\* fault variant: missing price data scored 0 instead of the neutral 50
price_score_penalized(prices) ==
    IF prices = <<>>
    THEN RatInt(0)
    ELSE RatMin(RatInt(50),
                RatMul(RatDiv(RatInt(200), Mean(prices)), RatInt(10)))

\* the three sub-scores of _calculate_platform_metrics
price_score_of(prices) ==
    IF prices = <<>>
    THEN RatInt(50)
    ELSE RatMin(RatInt(50),
                RatMul(RatDiv(RatInt(200), Mean(prices)), RatInt(10)))

rating_score_of(ratings) ==
    IF ratings # <<>>
    THEN RatMul(RatDiv(Stars(Mean(ratings)), RatInt(5)), RatInt(30))
    ELSE RatInt(0)

\* fault variant: the availability score without its cap of 20
availability_score_uncapped(ps) == Len(ps)

availability_score_of(ps) == IF Len(ps) < 20 THEN Len(ps) ELSE 20

\* fault variant: the average price taken over every record of the group,
\* the ones without a valid price included
calculate_platform_metrics_all_prices(ps) ==
    IF ps = <<>>
    THEN [score |-> RatInt(0)]
    ELSE LET prices == ValidColumn(ps, "price")
             ratings == ValidColumn(ps, "rating")
             sold_counts == Column(ps, "sold")
             price_score == price_score_of(prices)
             rating_score == rating_score_of(ratings)
             availability_score == availability_score_of(ps)
             total_score ==
                 RatAdd(RatAdd(price_score, rating_score),
                        RatInt(availability_score))
         IN  [product_count |-> Len(ps),
              avg_price |-> Mean(Column(ps, "price")),
              avg_rating |-> IF ratings # <<>> THEN Stars(Mean(ratings))
                                               ELSE RatInt(0),
              total_sold |-> Sum(sold_counts),
              price_score |-> price_score,
              rating_score |-> rating_score,
              availability_score |-> availability_score,
              score |-> total_score]

calculate_platform_metrics(ps) ==
    IF ps = <<>>
    THEN [score |-> RatInt(0)]
    ELSE LET prices == ValidColumn(ps, "price")
             ratings == ValidColumn(ps, "rating")
             sold_counts == Column(ps, "sold")
             price_score == price_score_of(prices)
             rating_score == rating_score_of(ratings)
             availability_score == availability_score_of(ps)
             total_score ==
                 RatAdd(RatAdd(price_score, rating_score),
                        RatInt(availability_score))
         IN  [product_count |-> Len(ps),
              avg_price |-> IF prices # <<>> THEN Mean(prices) ELSE RatInt(0),
              avg_rating |-> IF ratings # <<>> THEN Stars(Mean(ratings))
                                               ELSE RatInt(0),
              total_sold |-> Sum(sold_counts),
              price_score |-> price_score,
              rating_score |-> rating_score,
              availability_score |-> availability_score,
              score |-> total_score]

\* the position of the first element of a sequence of rationals that is
\* maximal, as max(..., key=) finds it
FirstMaxRatIndex(keys) ==
    CHOOSE i \in 1..Len(keys) :
        /\ \A j \in 1..Len(keys) : RatLE(keys[j], keys[i])
        /\ \A j \in 1..(i - 1) : RatLT(keys[j], keys[i])

\* fault variant: no early return for an empty collection; the comparison
\* is built from an empty grouping
compare_platforms_unguarded(ps) ==
    LET by_platform == platform_keys(ps)
        platforms == GroupKeys(by_platform)
        platform_metrics ==
            [k \in Range(platforms) |->
                calculate_platform_metrics(Group(ps, by_platform, k))]
        scores == [i \in 1..Len(platforms) |->
                      platform_metrics[platforms[i]].score]
    IN  [platform_metrics |-> platform_metrics,
         summary |->
             [total_platforms |-> Len(platforms),
              best_platform |-> IF platforms = <<>> THEN ""
                                ELSE platforms[FirstMaxRatIndex(scores)],
              platform_scores |->
                  [k \in Range(platforms) |-> platform_metrics[k].score]]]

\* fault variant: of several platforms with the greatest score the last one
\* is taken (max over the keys visited in reverse)
compare_platforms_last_best(ps) ==
    IF ps = <<>>
    THEN [error |-> "No products provided for comparison"]
    ELSE LET by_platform == platform_keys(ps)
             platforms == GroupKeys(by_platform)
             platform_metrics ==
                 [k \in Range(platforms) |->
                     calculate_platform_metrics(Group(ps, by_platform, k))]
             scores == [i \in 1..Len(platforms) |->
                           platform_metrics[platforms[i]].score]
         IN  [platform_metrics |-> platform_metrics,
              summary |->
                  [total_platforms |-> Len(platforms),
                   best_platform |->
                       Reverse(platforms)[FirstMaxRatIndex(Reverse(scores))],
                   platform_scores |->
                       [k \in Range(platforms) |-> platform_metrics[k].score]]]

compare_platforms(ps) ==
    IF ps = <<>>
    THEN [error |-> "No products provided for comparison"]
    ELSE LET by_platform == platform_keys(ps)
             platforms == GroupKeys(by_platform)
             platform_metrics ==
                 [k \in Range(platforms) |->
                     calculate_platform_metrics(Group(ps, by_platform, k))]
             scores == [i \in 1..Len(platforms) |->
                           platform_metrics[platforms[i]].score]
         IN  [platform_metrics |-> platform_metrics,
              summary |->
                  [total_platforms |-> Len(platforms),
                   best_platform |-> platforms[FirstMaxRatIndex(scores)],
                   platform_scores |->
                       [k \in Range(platforms) |-> platform_metrics[k].score]]]

\* str.lower() on the letters of a name
Upper == <<"A", "B", "C", "D", "E", "F", "G", "H", "I", "J", "K", "L", "M",
           "N", "O", "P", "Q", "R", "S", "T", "U", "V", "W", "X", "Y", "Z">>
Lowercase == <<"a", "b", "c", "d", "e", "f", "g", "h", "i", "j", "k", "l", "m",
           "n", "o", "p", "q", "r", "s", "t", "u", "v", "w", "x", "y", "z">>

LowerChar(c) ==
    IF \E i \in 1..Len(Upper) : Upper[i] = c
    THEN Lowercase[CHOOSE i \in 1..Len(Upper) : Upper[i] = c]
    ELSE c

Lower(name) == [i \in 1..Len(name) |-> LowerChar(name[i])]

\* keyword in name
Contains(name, keyword) ==
    \E i \in 1..(Len(name) - Len(keyword) + 1) :
        SubSeq(name, i, i + Len(keyword) - 1) = keyword

category_keywords == <<
    [category |-> "electronics", keywords |-> <<
        <<"p", "h", "o", "n", "e">>,
        <<"c", "h", "a", "r", "g", "e", "r">>,
        <<"c", "a", "b", "l", "e">>,
        <<"e", "a", "r", "p", "h", "o", "n", "e">>,
        <<"h", "e", "a", "d", "p", "h", "o", "n", "e">>,
        <<"m", "o", "u", "s", "e">>,
        <<"k", "e", "y", "b", "o", "a", "r", "d">>,
        <<"u", "s", "b">>
    >>],
    [category |-> "home_kitchen", keywords |-> <<
        <<"k", "i", "t", "c", "h", "e", "n">>,
        <<"s", "t", "o", "r", "a", "g", "e">>,
        <<"c", "o", "n", "t", "a", "i", "n", "e", "r">>,
        <<"o", "r", "g", "a", "n", "i", "z", "e", "r">>,
        <<"r", "a", "c", "k">>,
        <<"h", "o", "l", "d", "e", "r">>,
        <<"b", "o", "t", "t", "l", "e">>
    >>],
    [category |-> "fashion", keywords |-> <<
        <<"s", "h", "i", "r", "t">>,
        <<"p", "a", "n", "t", "s">>,
        <<"s", "o", "c", "k", "s">>,
        <<"s", "h", "o", "e", "s">>,
        <<"b", "a", "g">>,
        <<"w", "a", "l", "l", "e", "t">>,
        <<"w", "a", "t", "c", "h">>,
        <<"b", "e", "l", "t">>
    >>],
    [category |-> "beauty", keywords |-> <<
        <<"s", "k", "i", "n", "c", "a", "r", "e">>,
        <<"m", "a", "k", "e", "u", "p">>,
        <<"c", "r", "e", "a", "m">>,
        <<"s", "e", "r", "u", "m">>,
        <<"m", "a", "s", "k">>,
        <<"c", "o", "s", "m", "e", "t", "i", "c">>,
        <<"l", "i", "p", "s", "t", "i", "c", "k">>
    >>],
    [category |-> "stationery", keywords |-> <<
        <<"p", "e", "n">>,
        <<"n", "o", "t", "e", "b", "o", "o", "k">>,
        <<"p", "e", "n", "c", "i", "l">>,
        <<"m", "a", "r", "k", "e", "r">>,
        <<"p", "a", "p", "e", "r">>,
        <<"f", "i", "l", "e">>,
        <<"f", "o", "l", "d", "e", "r">>
    >>],
    [category |-> "toys_hobbies", keywords |-> <<
        <<"t", "o", "y">>,
        <<"g", "a", "m", "e">>,
        <<"p", "u", "z", "z", "l", "e">>,
        <<"h", "o", "b", "b", "y">>,
        <<"c", "r", "a", "f", "t">>,
        <<"d", "i", "y">>
    >>],
    [category |-> "health", keywords |-> <<
        <<"v", "i", "t", "a", "m", "i", "n">>,
        <<"s", "u", "p", "p", "l", "e", "m", "e", "n", "t">>,
        <<"h", "e", "a", "l", "t", "h">>,
        <<"f", "i", "t", "n", "e", "s", "s">>,
        <<"w", "e", "l", "l", "n", "e", "s", "s">>
    >>]
>>

\* fault variant: the loop over the table has no break, the last matching
\* category wins
category_of_last_match(product) ==
    LET name == Lower(Get(product, "name", <<>>))
        Matches(c) == \E k \in 1..Len(category_keywords[c].keywords) :
                          Contains(name, category_keywords[c].keywords[k])
    IN  IF \E c \in 1..Len(category_keywords) : Matches(c)
        THEN category_keywords[CHOOSE c \in 1..Len(category_keywords) :
                 /\ Matches(c)
                 /\ \A b \in (c + 1)..Len(category_keywords) : ~Matches(b)
             ].category
        ELSE "others"

\* fault variant: a product without a match falls into the first category of
\* the table instead of 'others'
category_of_default_first(product) ==
    LET name == Lower(Get(product, "name", <<>>))
        Matches(c) == \E k \in 1..Len(category_keywords[c].keywords) :
                          Contains(name, category_keywords[c].keywords[k])
    IN  category_keywords[
            IF \E c \in 1..Len(category_keywords) : Matches(c)
            THEN CHOOSE c \in 1..Len(category_keywords) :
                     /\ Matches(c)
                     /\ \A b \in 1..(c - 1) : ~Matches(b)
            ELSE 1].category

\* the category the loop of _categorize_affordable_products puts a product
\* in: the first category of the table with a keyword in the lowered name,
\* 'others' when there is none
category_of(product) ==
    LET name == Lower(Get(product, "name", <<>>))
        Matches(c) == \E k \in 1..Len(category_keywords[c].keywords) :
                          Contains(name, category_keywords[c].keywords[k])
    IN  IF \E c \in 1..Len(category_keywords) : Matches(c)
        THEN category_keywords[CHOOSE c \in 1..Len(category_keywords) :
                 /\ Matches(c)
                 /\ \A b \in 1..(c - 1) : ~Matches(b)].category
        ELSE "others"

category_stats_of(cat_products) ==
    LET prices == ValidColumn(cat_products, "price")
        sales == Column(cat_products, "sold")
    IN  [product_count |-> Len(cat_products),
         avg_price |-> IF prices # <<>> THEN Mean(prices) ELSE RatInt(0),
         total_sales |-> Sum(sales),
         avg_sales_per_product |-> IF sales # <<>> THEN Mean(sales)
                                                   ELSE RatInt(0),
         top_product |-> IF cat_products # <<>>
                         THEN Some(cat_products[FirstMaxIndex(sales)])
                         ELSE None]

\* fault variant: the categories are visited in the order of the keyword
\* table ('others' last), not in the order they were first filled
categorize_affordable_products_table_order(ps) ==
    LET by_category == Eager([i \in 1..Len(ps) |-> category_of(ps[i])])
        table == [i \in 1..(Len(category_keywords) + 1) |->
                     IF i <= Len(category_keywords)
                     THEN category_keywords[i].category
                     ELSE "others"]
        cats == SelectSeq(table, LAMBDA c : c \in Range(by_category))
        categories == [c \in Range(cats) |-> Group(ps, by_category, c)]
        category_stats == [c \in Range(cats) |->
                              category_stats_of(categories[c])]
        totals == [i \in 1..Len(cats) |-> category_stats[cats[i]].total_sales]
    IN  [categories |-> categories,
         category_stats |-> category_stats,
         top_category |-> IF cats # <<>> THEN Some(cats[FirstMaxIndex(totals)])
                                         ELSE None,
         category_count |-> Len(cats)]

categorize_affordable_products(ps) ==
    LET by_category == Eager([i \in 1..Len(ps) |-> category_of(ps[i])])
        cats == GroupKeys(by_category)
        categories == [c \in Range(cats) |-> Group(ps, by_category, c)]
        category_stats == [c \in Range(cats) |->
                              category_stats_of(categories[c])]
        totals == [i \in 1..Len(cats) |-> category_stats[cats[i]].total_sales]
    IN  [categories |-> categories,
         category_stats |-> category_stats,
         top_category |-> IF cats # <<>> THEN Some(cats[FirstMaxIndex(totals)])
                                         ELSE None,
         category_count |-> Len(cats)]

analyze_top_sellers(ps) ==
    IF ps = <<>>
    THEN <<>>
    ELSE LET prices == ValidColumn(ps, "price")
             sales == Column(ps, "sold")
             ratings == ValidColumn(ps, "rating")
             paying == SelectSeq(ps, LAMBDA p : sold_of(p) > 0 /\ price_of(p) > 0)
             ratio_sum[i \in 0..Len(paying)] ==
                 IF i = 0 THEN RatInt(0)
                 ELSE RatAdd(ratio_sum[i - 1],
                             Rat(price_of(paying[i]), sold_of(paying[i])))
         IN  [avg_price |-> IF prices # <<>> THEN Mean(prices) ELSE RatInt(0),
              avg_sales |-> IF sales # <<>> THEN Mean(sales) ELSE RatInt(0),
              total_sales_volume |-> Sum(sales),
              avg_rating |-> IF ratings # <<>> THEN Stars(Mean(ratings))
                                               ELSE RatInt(0),
              avg_price_to_sales_ratio |->
                  IF paying # <<>>
                  THEN RatDiv(ratio_sum[Len(paying)], RatInt(Len(paying)))
                  ELSE RatInt(0),
              high_performers |->
                  Len(SelectSeq(ps, LAMBDA p : sold_of(p) > 1000))]

\* fault variant: the list is cut to top_n before it is ranked
get_top_sellers_truncate_first(ps, top_n, max_price) ==
    LET filtered == IF max_price # None
                    THEN filter_by_price_range(ps, max_price, 0)
                    ELSE ps
        top_products == rank_by_sales(Take(filtered, top_n), TRUE)
    IN  IF top_products = <<>>
        THEN [error |-> "No products found matching criteria"]
        ELSE [top_sellers |-> top_products,
              count |-> Len(top_products),
              total_filtered |-> Len(filtered),
              filter_applied |->
                  IF \E m \in max_price : m # 0
                  THEN Some([max_price |-> max_price])
                  ELSE None,
              top_seller_analysis |-> analyze_top_sellers(top_products)]

get_top_sellers(ps, top_n, max_price) ==
    LET filtered == IF max_price # None
                    THEN filter_by_price_range(ps, max_price, 0)
                    ELSE ps
        ranked_products == rank_by_sales(filtered, TRUE)
        top_products == Take(ranked_products, top_n)
    IN  IF top_products = <<>>
        THEN [error |-> "No products found matching criteria"]
        ELSE [top_sellers |-> top_products,
              count |-> Len(top_products),
              total_filtered |-> Len(filtered),
              filter_applied |->
                  IF \E m \in max_price : m # 0
                  THEN Some([max_price |-> max_price])
                  ELSE None,
              top_seller_analysis |-> analyze_top_sellers(top_products)]

\* The recommendations are free text; each is kept as the numbers and names
\* the text is built from, without the rendering of the numbers.
generate_bestseller_recommendations(ps, max_price) ==
    IF ps = <<>>
    THEN <<[kind |-> "no_data"]>>
    ELSE LET prices == ValidColumn(ps, "price")
             avg_price == Mean(prices)
             budget == RatMul(avg_price, Rat(7, 10))
             low_price == SelectSeq(prices, LAMBDA p : RatLT(RatInt(p), budget))
             sales == ValidColumn(ps, "sold")
             by_platform == platform_keys(ps)
             platforms == GroupKeys(by_platform)
             counts == [k \in Range(platforms) |->
                           Len(Group(ps, by_platform, k))]
             top_platform == most_common(platforms, counts)
         IN  (IF prices # <<>>
              THEN <<[kind |-> "sweet_spot", avg_price |-> avg_price]>>
                   \o (IF 10 * Len(low_price) >= 3 * Len(prices)
                       THEN <<[kind |-> "budget_items",
                               under |-> budget,
                               percentage |-> Rat(Len(low_price) * 100,
                                                  Len(prices))]>>
                       ELSE <<>>)
              ELSE <<>>)
             \o (IF sales # <<>>
                 THEN <<[kind |-> "sales_benchmark",
                         units |-> RatTrunc(Median(sales))]>>
                 ELSE <<>>)
             \o <<[kind |-> "top_platform",
                   platform |-> top_platform[1],
                   items |-> top_platform[2]]>>

\* fault variant: the error of get_top_sellers is put beside a summary instead
\* of being returned as the whole report
analyze_affordable_bestsellers_error_beside_summary(ps, max_price, top_n) ==
    LET affordable == filter_by_price_range(ps, max_price, 0)
        top_sellers_result == get_top_sellers(affordable, top_n, None)
        top_sellers == top_sellers_result.top_sellers
    IN  IF affordable = <<>>
        THEN [error |-> <<"No products found under RM", max_price>>]
        ELSE IF "error" \in DOMAIN top_sellers_result
        THEN [error |-> top_sellers_result.error,
              summary |->
                  [total_affordable_products |-> Len(affordable),
                   top_sellers_count |-> 0,
                   price_threshold |-> max_price,
                   currency |-> "MYR"]]
        ELSE [summary |->
                  [total_affordable_products |-> Len(affordable),
                   top_sellers_count |-> Len(top_sellers),
                   price_threshold |-> max_price,
                   currency |-> "MYR"],
              price_metrics |-> analyze_prices(top_sellers),
              sales_metrics |-> analyze_sales(top_sellers),
              rating_metrics |-> analyze_ratings(top_sellers),
              platform_distribution |-> analyze_platform_breakdown(top_sellers),
              category_insights |-> categorize_affordable_products(top_sellers),
              top_products |-> Take(top_sellers, 10),
              all_top_sellers |-> top_sellers,
              recommendations |->
                  generate_bestseller_recommendations(top_sellers, max_price)]

\* fault variant: the ranking is taken of the whole input, not of the
\* affordable records
analyze_affordable_bestsellers_ranks_input(ps, max_price, top_n) ==
    LET affordable == filter_by_price_range(ps, max_price, 0)
        top_sellers_result == get_top_sellers(ps, top_n, None)
        top_sellers == top_sellers_result.top_sellers
    IN  IF affordable = <<>>
        THEN [error |-> <<"No products found under RM", max_price>>]
        ELSE IF "error" \in DOMAIN top_sellers_result
        THEN top_sellers_result
        ELSE [summary |->
                  [total_affordable_products |-> Len(affordable),
                   top_sellers_count |-> Len(top_sellers),
                   price_threshold |-> max_price,
                   currency |-> "MYR"],
              price_metrics |-> analyze_prices(top_sellers),
              sales_metrics |-> analyze_sales(top_sellers),
              rating_metrics |-> analyze_ratings(top_sellers),
              platform_distribution |-> analyze_platform_breakdown(top_sellers),
              category_insights |-> categorize_affordable_products(top_sellers),
              top_products |-> Take(top_sellers, 10),
              all_top_sellers |-> top_sellers,
              recommendations |->
                  generate_bestseller_recommendations(top_sellers, max_price)]

analyze_affordable_bestsellers(ps, max_price, top_n) ==
    LET affordable == filter_by_price_range(ps, max_price, 0)
        top_sellers_result == get_top_sellers(affordable, top_n, None)
        top_sellers == top_sellers_result.top_sellers
    IN  IF affordable = <<>>
        THEN [error |-> <<"No products found under RM", max_price>>]
        ELSE IF "error" \in DOMAIN top_sellers_result
        THEN top_sellers_result
        ELSE [summary |->
                  [total_affordable_products |-> Len(affordable),
                   top_sellers_count |-> Len(top_sellers),
                   price_threshold |-> max_price,
                   currency |-> "MYR"],
              price_metrics |-> analyze_prices(top_sellers),
              sales_metrics |-> analyze_sales(top_sellers),
              rating_metrics |-> analyze_ratings(top_sellers),
              platform_distribution |-> analyze_platform_breakdown(top_sellers),
              category_insights |-> categorize_affordable_products(top_sellers),
              top_products |-> Take(top_sellers, 10),
              all_top_sellers |-> top_sellers,
              recommendations |->
                  generate_bestseller_recommendations(top_sellers, max_price)]

\* fault variant: a collection without a valid price fails the whole report
analyze_products_poisoned(ps) ==
    IF ps = <<>>
    THEN [error |-> "No products provided for analysis"]
    ELSE IF "error" \in DOMAIN analyze_prices(ps)
    THEN analyze_prices(ps)
    ELSE [total_products |-> Len(ps),
          price_analysis |-> analyze_prices(ps),
          rating_analysis |-> analyze_ratings(ps),
          merchant_analysis |-> analyze_merchants(ps),
          category_analysis |-> categorize_affordable_products(ps),
          platform_breakdown |-> analyze_platform_breakdown(ps)]

analyze_products(ps) ==
    IF ps = <<>>
    THEN [error |-> "No products provided for analysis"]
    ELSE [total_products |-> Len(ps),
          price_analysis |-> analyze_prices(ps),
          rating_analysis |-> analyze_ratings(ps),
          merchant_analysis |-> analyze_merchants(ps),
          category_analysis |-> categorize_affordable_products(ps),
          platform_breakdown |-> analyze_platform_breakdown(ps)]

---------------------------------------------------------------------------
(* Exceptions.  The partial operations of the code are statistics.mean,    *)
(* statistics.median, min and max (an empty sequence raises),              *)
(* statistics.stdev (fewer than two values raise), s[0] (an empty list     *)
(* raises) and x / y (a zero y raises).  X_raises(...) is true when a      *)
(* partial operation of method X is reached with such an argument; each    *)
(* operation appears under the condition the code reaches it with.         *)

mean_raises(data) == data = <<>>
median_raises(data) == data = <<>>
stdev_raises(data) == Len(data) < 2
min_raises(data) == data = <<>>
max_raises(data) == data = <<>>
index_raises(s) == s = <<>>
div_raises(y) == y = RatInt(0)

\* fault variant: statistics.stdev taken without the len(prices) > 1 test
analyze_prices_raises_unguarded_stdev(ps) ==
    LET prices == ValidColumn(ps, "price")
    IN  /\ prices # <<>>
        /\ \/ mean_raises(prices)
           \/ median_raises(prices)
           \/ min_raises(prices)
           \/ max_raises(prices)
           \/ stdev_raises(prices)

analyze_prices_raises(ps) ==
    LET prices == ValidColumn(ps, "price")
    IN  /\ prices # <<>>
        /\ \/ mean_raises(prices)
           \/ median_raises(prices)
           \/ min_raises(prices)
           \/ max_raises(prices)
           \/ (Len(prices) > 1 /\ stdev_raises(prices))

analyze_ratings_raises(ps) ==
    LET ratings == ValidColumn(ps, "rating")
    IN  /\ ratings # <<>>
        /\ \/ mean_raises(ratings)
           \/ median_raises(ratings)
           \/ min_raises(ratings)
           \/ max_raises(ratings)
           \/ div_raises(RatInt(Len(ratings)))

analyze_sales_raises(ps) ==
    LET sales == ValidColumn(ps, "sold")
    IN  /\ sales # <<>>
        /\ \/ mean_raises(sales)
           \/ median_raises(sales)
           \/ min_raises(sales)
           \/ max_raises(sales)

merchant_stats_raises(shop_products) ==
    LET prices == ValidColumn(shop_products, "price")
        ratings == ValidColumn(shop_products, "rating")
    IN  \/ (prices # <<>> /\ mean_raises(prices))
        \/ (ratings # <<>> /\ mean_raises(ratings))
        \/ index_raises(shop_products)

analyze_merchants_raises(ps) ==
    LET by_shop == shop_id_keys(ps)
        shop_ids == GroupKeys(by_shop)
    IN  \/ \E s \in Range(shop_ids) :
               merchant_stats_raises(Group(ps, by_shop, s))
        \/ mean_raises(shop_ids)

analyze_platform_breakdown_raises(ps) ==
    LET platforms == GroupKeys(platform_keys(ps))
    IN  platforms # <<>> /\ index_raises(Take(platforms, 1))

category_stats_raises(cat_products) ==
    LET prices == ValidColumn(cat_products, "price")
        sales == Column(cat_products, "sold")
    IN  \/ (prices # <<>> /\ mean_raises(prices))
        \/ (sales # <<>> /\ mean_raises(sales))
        \/ (cat_products # <<>> /\ max_raises(cat_products))

categorize_affordable_products_raises(ps) ==
    LET by_category == Eager([i \in 1..Len(ps) |-> category_of(ps[i])])
        cats == GroupKeys(by_category)
    IN  \/ \E c \in Range(cats) :
               category_stats_raises(Group(ps, by_category, c))
        \/ (cats # <<>> /\ max_raises(cats))

analyze_top_sellers_raises(ps) ==
    LET prices == ValidColumn(ps, "price")
        sales == Column(ps, "sold")
        ratings == ValidColumn(ps, "rating")
    IN  /\ ps # <<>>
        /\ \/ \E i \in 1..Len(ps) :
                  /\ sold_of(ps[i]) > 0
                  /\ price_of(ps[i]) > 0
                  /\ div_raises(RatInt(sold_of(ps[i])))
           \/ (prices # <<>> /\ mean_raises(prices))
           \/ (sales # <<>> /\ mean_raises(sales))
           \/ (ratings # <<>> /\ mean_raises(ratings))
           \/ LET paying == SelectSeq(ps, LAMBDA p :
                                sold_of(p) > 0 /\ price_of(p) > 0)
              IN  paying # <<>> /\ mean_raises(paying)

\* get_top_sellers, given its local top_products (the truncated ranking)
get_top_sellers_raises(top_products) ==
    top_products # <<>> /\ analyze_top_sellers_raises(top_products)

generate_bestseller_recommendations_raises(ps) ==
    LET prices == ValidColumn(ps, "price")
        sales == ValidColumn(ps, "sold")
        platforms == GroupKeys(platform_keys(ps))
    IN  /\ ps # <<>>
        /\ \/ (prices # <<>> /\ mean_raises(prices))
           \/ (prices # <<>> /\ div_raises(RatInt(Len(prices))))
           \/ (sales # <<>> /\ median_raises(sales))
           \/ (platforms # <<>> /\ index_raises(Take(platforms, 1)))

\* analyze_affordable_bestsellers, given its locals affordable (the filter
\* result) and top_sellers (the truncated ranking of affordable)
analyze_affordable_bestsellers_raises(affordable, top_sellers) ==
    /\ affordable # <<>>
    /\ \/ get_top_sellers_raises(top_sellers)
       \/ /\ top_sellers # <<>>
          /\ \/ analyze_prices_raises(top_sellers)
             \/ analyze_sales_raises(top_sellers)
             \/ analyze_ratings_raises(top_sellers)
             \/ analyze_platform_breakdown_raises(top_sellers)
             \/ categorize_affordable_products_raises(top_sellers)
             \/ generate_bestseller_recommendations_raises(top_sellers)

analyze_products_raises(ps) ==
    /\ ps # <<>>
    /\ \/ analyze_prices_raises(ps)
       \/ analyze_ratings_raises(ps)
       \/ analyze_merchants_raises(ps)
       \/ categorize_affordable_products_raises(ps)
       \/ analyze_platform_breakdown_raises(ps)

calculate_platform_metrics_raises(ps) ==
    LET prices == ValidColumn(ps, "price")
        ratings == ValidColumn(ps, "rating")
    IN  /\ ps # <<>>
        /\ \/ (prices # <<>>
                 /\ (mean_raises(prices) \/ div_raises(Mean(prices))))
           \/ (ratings # <<>> /\ mean_raises(ratings))

compare_platforms_raises(ps) ==
    LET by_platform == platform_keys(ps)
        platforms == GroupKeys(by_platform)
    IN  /\ ps # <<>>
        /\ \/ \E k \in Range(platforms) :
                  calculate_platform_metrics_raises(Group(ps, by_platform, k))
           \/ (platforms # <<>> /\ max_raises(platforms))

---------------------------------------------------------------------------
(* The methods an operation calls, in call order: the control flow of the  *)
(* operation, with its early returns                                       *)

\* get_top_sellers, given its local top_products (the truncated ranking)
get_top_sellers_calls(max_price, top_products) ==
    (IF max_price # None THEN <<"filter_by_price_range">> ELSE <<>>)
        \o <<"rank_by_sales">>
        \o (IF top_products = <<>> THEN <<>> ELSE <<"_analyze_top_sellers">>)

\* fault variant: the empty filter result is not returned at once, the
\* pipeline goes on to get_top_sellers and fails there
analyze_affordable_bestsellers_calls_no_halt(affordable, top_sellers) ==
    LET top_sellers_calls == get_top_sellers_calls(None, top_sellers)
    IN  <<"filter_by_price_range", "get_top_sellers">>
        \o top_sellers_calls
        \o (IF top_sellers_calls = <<"rank_by_sales">>
            THEN <<>>
            ELSE <<"_analyze_prices", "_analyze_sales", "_analyze_ratings",
                   "_analyze_platform_breakdown",
                   "_categorize_affordable_products",
                   "_generate_bestseller_recommendations">>)

\* analyze_affordable_bestsellers, given its locals affordable (the filter
\* result) and top_sellers (the truncated ranking of affordable, empty when
\* get_top_sellers returned its error report right after rank_by_sales)
analyze_affordable_bestsellers_calls(affordable, top_sellers) ==
    LET top_sellers_calls == get_top_sellers_calls(None, top_sellers)
    IN  <<"filter_by_price_range">>
        \o (IF affordable = <<>>
            THEN <<>>
            ELSE <<"get_top_sellers">>
                 \o top_sellers_calls
                 \o (IF top_sellers_calls = <<"rank_by_sales">>
                     THEN <<>>
                     ELSE <<"_analyze_prices", "_analyze_sales",
                            "_analyze_ratings", "_analyze_platform_breakdown",
                            "_categorize_affordable_products",
                            "_generate_bestseller_recommendations">>))

analyze_products_calls(ps) ==
    IF ps = <<>>
    THEN <<>>
    ELSE <<"_analyze_prices", "_analyze_ratings", "_analyze_merchants",
           "_categorize_affordable_products", "_analyze_platform_breakdown">>

\* one _calculate_platform_metrics per platform of the grouping
compare_platforms_calls(ps) ==
    IF ps = <<>>
    THEN <<>>
    ELSE [i \in 1..Len(GroupKeys(platform_keys(ps))) |->
             "_calculate_platform_metrics"]

---------------------------------------------------------------------------
(* The caller's list after an operation.  The code builds its results in   *)
(* new lists (filtered = [], sorted(...), slices) and only reads the       *)
(* records; get_top_sellers without a ceiling hands the caller's own list  *)
(* to rank_by_sales.                                                       *)

\* fault variant: products.sort(...) in place of sorted(products, ...)
rank_by_sales_input_sorted_in_place(ps, descending) ==
    rank_by_sales(ps, descending)

rank_by_sales_input(ps, descending) == ps

filter_by_price_range_input(ps, max_price, min_price) == ps

get_top_sellers_input(ps, top_n, max_price) ==
    IF max_price # None
    THEN filter_by_price_range_input(ps, max_price, 0)
    ELSE rank_by_sales_input(ps, TRUE)

analyze_affordable_bestsellers_input(ps, max_price, top_n) ==
    filter_by_price_range_input(ps, max_price, 0)

analyze_products_input(ps) == ps

compare_platforms_input(ps) == ps

---------------------------------------------------------------------------
(* The state machine: a caller holds a product list and an analyzer, calls *)
(* one operation at a time and takes the report it returns.                *)

Init ==
    /\ products \in ProductLists
    /\ op = "none"
    /\ args = <<>>
    /\ report = <<>>
    /\ calls = <<>>
    /\ raised = FALSE
    /\ search_history = <<>>
    /\ search_results = <<>>
    /\ sqlite_sequence = 0
    /\ background_tasks = <<>>
    /\ messages = <<>>
    /\ scrapers = <<>>
    /\ max_retries = 0
    /\ attempt = 0

CallFilterByPriceRange ==
    \E max_price \in MaxPrices, min_price \in MinPrices :
        /\ op = "none"
        /\ op' = "filter_by_price_range"
        /\ args' = [max_price |-> max_price, min_price |-> min_price]
        /\ report' = filter_by_price_range(products, max_price, min_price)
        /\ calls' = <<>>
        /\ raised' = FALSE
        /\ products' = filter_by_price_range_input(products, max_price, min_price)
        /\ UNCHANGED <<apiVars, scraperVars>>

CallRankBySales ==
    \E descending \in BOOLEAN :
        /\ op = "none"
        /\ op' = "rank_by_sales"
        /\ args' = [descending |-> descending]
        /\ report' = rank_by_sales(products, descending)
        /\ calls' = <<>>
        /\ raised' = FALSE
        /\ products' = rank_by_sales_input(products, descending)
        /\ UNCHANGED <<apiVars, scraperVars>>

CallGetTopSellers ==
    \E top_n \in TopNs, max_price \in MaxPrices :
        /\ op = "none"
        /\ op' = "get_top_sellers"
        /\ args' = [top_n |-> top_n, max_price |-> max_price]
        /\ \E result \in {get_top_sellers(products, top_n, max_price)} :
               \* the local top_products, empty in the error report
               \E top_products \in {IF "error" \in DOMAIN result THEN <<>>
                                     ELSE result.top_sellers} :
                   /\ raised' = get_top_sellers_raises(top_products)
                   /\ report' = IF raised' THEN <<>> ELSE result
                   /\ calls' = get_top_sellers_calls(max_price, top_products)
        /\ products' = get_top_sellers_input(products, top_n, max_price)
        /\ UNCHANGED <<apiVars, scraperVars>>

CallAnalyzeAffordableBestsellers ==
    \E max_price \in MaxPrices, top_n \in BestsellerTopNs :
        /\ op = "none"
        /\ op' = "analyze_affordable_bestsellers"
        /\ args' = [max_price |-> max_price, top_n |-> top_n]
        /\ \E result \in
                  {analyze_affordable_bestsellers(products, max_price, top_n)},
              affordable \in {filter_by_price_range(products, max_price, 0)} :
               \* the local top_sellers, empty in an error report
               \E top_sellers \in {IF "error" \in DOMAIN result THEN <<>>
                                    ELSE result.all_top_sellers} :
                   /\ raised' = analyze_affordable_bestsellers_raises(
                                    affordable, top_sellers)
                   /\ report' = IF raised' THEN <<>> ELSE result
                   /\ calls' = analyze_affordable_bestsellers_calls(
                                   affordable, top_sellers)
        /\ products' =
               analyze_affordable_bestsellers_input(products, max_price, top_n)
        /\ UNCHANGED <<apiVars, scraperVars>>

CallAnalyzeProducts ==
    /\ op = "none"
    /\ op' = "analyze_products"
    /\ args' = <<>>
    /\ raised' = analyze_products_raises(products)
    /\ report' = IF raised' THEN <<>> ELSE analyze_products(products)
    /\ calls' = analyze_products_calls(products)
    /\ products' = analyze_products_input(products)
    /\ UNCHANGED <<apiVars, scraperVars>>

CallComparePlatforms ==
    /\ op = "none"
    /\ op' = "compare_platforms"
    /\ args' = <<>>
    /\ raised' = compare_platforms_raises(products)
    /\ report' = IF raised' THEN <<>> ELSE compare_platforms(products)
    /\ calls' = compare_platforms_calls(products)
    /\ products' = compare_platforms_input(products)
    /\ UNCHANGED <<apiVars, scraperVars>>

CallCalculatePlatformMetrics ==
    /\ op = "none"
    /\ op' = "calculate_platform_metrics"
    /\ args' = <<>>
    /\ raised' = calculate_platform_metrics_raises(products)
    /\ report' = IF raised' THEN <<>> ELSE calculate_platform_metrics(products)
    /\ calls' = <<>>
    /\ UNCHANGED products
    /\ UNCHANGED <<apiVars, scraperVars>>

\* the caller is done with the report; the analyzer keeps nothing of the call
Return ==
    /\ op # "none"
    /\ op' = "none"
    /\ args' = <<>>
    /\ report' = <<>>
    /\ calls' = <<>>
    /\ raised' = FALSE
    /\ UNCHANGED products
    /\ UNCHANGED <<apiVars, scraperVars>>

Next ==
    \/ CallFilterByPriceRange
    \/ CallRankBySales
    \/ CallGetTopSellers
    \/ CallAnalyzeAffordableBestsellers
    \/ CallAnalyzeProducts
    \/ CallComparePlatforms
    \/ CallCalculatePlatformMetrics
    \/ Return

Spec == Init /\ [][Next]_vars

---------------------------------------------------------------------------
(* The API: the search endpoints, the background search task, the store *)

\* searches created in one run of the server
MaxSearches == 2

\* what a best-seller request can carry: max_price > 0 and 1 <= top_n <= 100
RequestMaxPrices == {Some(50)}
RequestTopNs == {1, DefaultTopN}

\* a results dict is a sequence of entries in insertion order
Entry(platform, ps) == [platform |-> platform, products |-> ps]

\* what the platform scrapers can bring back for one search: nothing, only
\* products above the ceiling, or more than ten cheap products among others
ScrapedResults == {
    <<Entry("shopee", <<>>), Entry("lazada", <<>>)>>,
    <<Entry("shopee", <<[name |-> <<>>, price |-> 400, rating |-> 25,
                         sold |-> 2000, shop_id |-> "s1"]>>)>>,
    <<Entry("shopee", Repeat(<<[name |-> Name1, price |-> 30, rating |-> 50,
                                sold |-> 5, shop_id |-> "s1"]>>, MaxCopies)
                      \o <<[price |-> 0, rating |-> 50]>>),
      Entry("lazada", Repeat(<<[name |-> Name2, price |-> 50, rating |-> 40,
                                sold |-> 5, shop_id |-> "s2"]>>, MaxCopies)
                      \o <<[name |-> <<>>, price |-> 400, rating |-> 25,
                            sold |-> 2000, shop_id |-> "s1"]>>)>>
}

\* INSERT INTO search_history ... 'pending'
create_search(history, search_id, max_price, top_n) ==
    (search_id :> [max_price |-> max_price, top_n |-> top_n,
                   status |-> "pending", result_count |-> 0,
                   error_message |-> None]) @@ history

\* UPDATE search_history SET ... WHERE id = ?: no row, no change
update_search_status(history, search_id, status, result_count, error_message) ==
    [id \in DOMAIN history |->
        IF id = search_id
        THEN [history[id] EXCEPT !.status = status,
                                 !.result_count = result_count,
                                 !.error_message = error_message]
        ELSE history[id]]

\* the rows one platform's products become
RowsOf(search_id, entry) ==
    Eager([i \in 1..Len(entry.products) |->
        [search_id |-> search_id,
         platform |-> entry.platform,
         product_name |-> Get(entry.products[i], "name", <<>>),
         price |-> Get(entry.products[i], "price", 0),
         rating |-> Get(entry.products[i], "rating", 0),
         sold |-> Get(entry.products[i], "sold", 0)]])

\* INSERT INTO search_results, one row per product of every platform
RECURSIVE save_results(_, _, _)
save_results(rows, search_id, results) ==
    IF results = <<>>
    THEN rows
    ELSE save_results(rows \o RowsOf(search_id, results[1]), search_id,
                      Tail(results))

\* fault variant: counts the platforms, not the products
total_count_platforms(results) == Len(results)

\* the count save_results returns
RECURSIVE total_count(_)
total_count(results) ==
    IF results = <<>>
    THEN 0
    ELSE Len(results[1].products) + total_count(Tail(results))

\* DELETE FROM search_results WHERE search_id = ?
delete_search_results(rows, search_id) ==
    SelectSeq(rows, LAMBDA row : row.search_id # search_id)

\* DELETE FROM search_history WHERE id = ?
delete_search_history(history, search_id) ==
    [id \in DOMAIN history \ {search_id} |-> history[id]]

\* product['platform'] = platform
with_platform(product, platform) ==
    [key \in DOMAIN product \cup {"platform"} |->
        IF key = "platform" THEN platform ELSE product[key]]

\* the products of every platform, each labelled with its platform
RECURSIVE all_products(_)
all_products(results) ==
    IF results = <<>>
    THEN <<>>
    ELSE Eager([i \in 1..Len(results[1].products) |->
                   with_platform(results[1].products[i], results[1].platform)])
         \o all_products(Tail(results))

\* the products of a list regrouped by their platform, first seen first
reorganize_by_platform(ps) ==
    LET platforms == KeysInOrder(Eager([i \in 1..Len(ps) |->
                                           platform_of(ps[i])]))
    IN  Eager([k \in 1..Len(platforms) |->
            Entry(platforms[k],
                  SelectSeq(ps, LAMBDA p : platform_of(p) = platforms[k]))])

\* Python truthiness of an optional number
Truthy(optional) == \E v \in optional : v # 0

\* the arguments the POST handlers give the task
Requests ==
    {[is_bestseller |-> FALSE, max_price |-> None, top_n |-> None]}
    \cup {[is_bestseller |-> TRUE, max_price |-> max_price,
            top_n |-> Some(top_n)] :
               max_price \in RequestMaxPrices, top_n \in RequestTopNs}

\* is_bestseller and max_price and top_n
is_bestseller_search(request) ==
    request.is_bestseller /\ Truthy(request.max_price) /\ Truthy(request.top_n)

\* the results dict the task hands to save_results
perform_search_task_results(request, scraped) ==
    IF is_bestseller_search(request)
    THEN LET analysis == analyze_affordable_bestsellers(
                             all_products(scraped), request.max_price,
                             CHOOSE n \in request.top_n : TRUE)
         IN  IF "top_products" \in DOMAIN analysis
             THEN reorganize_by_platform(analysis.top_products)
             ELSE scraped
    ELSE scraped

\* whether the analysis inside the task raises
perform_search_task_raises(request, scraped) ==
    /\ is_bestseller_search(request)
    /\ LET affordable == filter_by_price_range(all_products(scraped),
                                                request.max_price, 0)
           result == get_top_sellers(affordable,
                                     CHOOSE n \in request.top_n : TRUE, None)
       IN  analyze_affordable_bestsellers_raises(
               affordable,
               IF "error" \in DOMAIN result THEN <<>> ELSE result.top_sellers)

\* the task's way through its try block for every request and every scraper
\* result, computed once: the results to save, or the analysis raising
perform_search_task_body ==
    [request \in Requests |-> [scraped \in ScrapedResults |->
        IF perform_search_task_raises(request, scraped)
        THEN [raises |-> TRUE, results |-> <<>>]
        ELSE [raises |-> FALSE,
              results |-> perform_search_task_results(request, scraped)]]]

\* db.create_search and background_tasks.add_task of both POST handlers
StartSearch(request) ==
    /\ sqlite_sequence < MaxSearches
    /\ sqlite_sequence' = sqlite_sequence + 1
    /\ search_history' =
           create_search(search_history, sqlite_sequence + 1,
                         request.max_price, request.top_n)
    /\ background_tasks' =
           ((sqlite_sequence + 1) :>
                [pc |-> "added", request |-> request, scraped |-> <<>>])
           @@ background_tasks
    /\ messages' = ((sqlite_sequence + 1) :> <<>>) @@ messages
    /\ UNCHANGED search_results

\* POST /search
search_products ==
    /\ \E request \in Requests :
           /\ ~request.is_bestseller
           /\ StartSearch(request)
    /\ UNCHANGED <<analyzerVars, scraperVars>>

\* POST /search/bestsellers
search_bestsellers ==
    /\ \E request \in Requests :
           /\ request.is_bestseller
           /\ StartSearch(request)
    /\ UNCHANGED <<analyzerVars, scraperVars>>

\* perform_search_task up to its first await: the 'started' message
perform_search_task_started ==
    /\ \E search_id \in DOMAIN background_tasks :
           /\ background_tasks[search_id].pc = "added"
           /\ background_tasks' =
                  [background_tasks EXCEPT ![search_id].pc = "started"]
           /\ messages' =
                  [messages EXCEPT ![search_id] = Append(@, "started")]
    /\ UNCHANGED <<search_history, search_results, sqlite_sequence>>
    /\ UNCHANGED <<analyzerVars, scraperVars>>

\* where the task can raise outside the analysis: nowhere, in the scraper,
\* or in save_results
RaisePoints == {"nowhere", "scraper", "save_results"}

\* the rest of perform_search_task, which has no await until its last
\* message: scrape, analyse, save, update the status; or the except branch.
\* When save_results raises after an INSERT, its connection still holds the
\* write lock while the except branch runs: update_search_status fails with
\* 'database is locked', the task ends by that exception, the inserts are
\* rolled back and the record stays as it was.  When it raises before any
\* INSERT the except branch goes through, as for a raise in the scraper.
\* `scraped` keeps the scraper's results of a task that got through.
perform_search_task_finished ==
    /\ \E search_id \in DOMAIN background_tasks :
           /\ background_tasks[search_id].pc = "started"
           /\ \E scraped \in ScrapedResults, raises_in \in RaisePoints :
                  \E body \in {perform_search_task_body[
                                   background_tasks[search_id].request][scraped]} :
                      IF \/ raises_in = "scraper"
                         \/ body.raises
                         \/ /\ raises_in = "save_results"
                            /\ total_count(body.results) < 2
                      THEN /\ search_history' =
                                  update_search_status(
                                      search_history, search_id, "failed", 0,
                                      Some("error"))
                           /\ messages' = [messages EXCEPT ![search_id] =
                                              Append(@, "failed")]
                           /\ background_tasks' =
                                  [background_tasks EXCEPT
                                      ![search_id].pc = "done"]
                           /\ UNCHANGED search_results
                      ELSE IF raises_in = "save_results"
                      THEN /\ background_tasks' =
                                  [background_tasks EXCEPT
                                      ![search_id].pc = "raised"]
                           /\ UNCHANGED <<search_history, search_results,
                                          messages>>
                      ELSE /\ search_results' =
                                  save_results(search_results, search_id,
                                               body.results)
                           /\ search_history' =
                                  update_search_status(
                                      search_history, search_id, "completed",
                                      total_count(body.results), None)
                           /\ messages' = [messages EXCEPT ![search_id] =
                                              Append(@, "completed")]
                           /\ background_tasks' =
                                  [background_tasks EXCEPT
                                      ![search_id].pc = "done",
                                      ![search_id].scraped = scraped]
    /\ UNCHANGED sqlite_sequence
    /\ UNCHANGED <<analyzerVars, scraperVars>>

\* db.delete_search
delete_search(search_id) ==
    /\ search_results' = delete_search_results(search_results, search_id)
    /\ search_history' = delete_search_history(search_history, search_id)

\* DELETE /history/{search_id}: 404 and no change when the record is missing
delete_history_item ==
    /\ \E search_id \in DOMAIN search_history : delete_search(search_id)
    /\ UNCHANGED <<sqlite_sequence, background_tasks, messages>>
    /\ UNCHANGED <<analyzerVars, scraperVars>>

\* DELETE /history: delete_search for every record of the history
clear_history ==
    /\ search_history # <<>>
    /\ search_results' =
           SelectSeq(search_results,
                     LAMBDA row : row.search_id \notin DOMAIN search_history)
    /\ search_history' = <<>>
    /\ UNCHANGED <<sqlite_sequence, background_tasks, messages>>
    /\ UNCHANGED <<analyzerVars, scraperVars>>

InitApi ==
    /\ search_history = <<>>
    /\ search_results = <<>>
    /\ sqlite_sequence = 0
    /\ background_tasks = <<>>
    /\ messages = <<>>
    /\ scrapers = <<>>
    /\ max_retries = 0
    /\ attempt = 0
    /\ products = <<>>
    /\ op = "none"
    /\ args = <<>>
    /\ report = <<>>
    /\ calls = <<>>
    /\ raised = FALSE

NextApi ==
    \/ search_products
    \/ search_bestsellers
    \/ perform_search_task_started
    \/ perform_search_task_finished
    \/ delete_history_item
    \/ clear_history

SpecApi == InitApi /\ [][NextApi]_vars

---------------------------------------------------------------------------
(* The multi-platform scraper *)

\* platform names in a request's list
MaxRequested == 2

\* SUPPORTED_PLATFORMS with enabled: True, in declaration order
EnabledPlatforms == <<"shopee", "lazada", "mudah">>

\* self.platforms: the enabled platforms whose scraper could be built
RECURSIVE SubSequences(_)
SubSequences(s) ==
    IF s = <<>>
    THEN {<<>>}
    ELSE LET rest == SubSequences(Tail(s))
         IN  rest \cup {<<Head(s)>> \o r : r \in rest}

\* names a caller can ask for: enabled ones and one that is not a platform
RequestedNames == {"shopee", "mudah", "tokopedia"}

\* keywords, as sequences of characters
Keywords == {<<>>, <<" ", " ">>, <<"u", "s", "b">>}

\* not keyword.strip()
IsBlank(keyword) == \A i \in 1..Len(keyword) : keyword[i] = " "

\* what scraper.search_products can do: raise, return a list, return None
ScraperOutcomes == {
    [kind |-> "raises"],
    [kind |-> "returns_none"],
    [kind |-> "returns", products |-> <<>>],
    [kind |-> "returns",
     products |-> <<[name |-> Name1, price |-> 30, sold |-> 5]>>]
}

\* the try block of one platform: len(None) raises inside it as well
products_or_empty(outcome) ==
    IF outcome.kind = "returns" THEN outcome.products ELSE <<>>

\* fault variant: no except around the scraper, a failure ends the search
RECURSIVE search_all_platforms_no_except(_, _, _)
search_all_platforms_no_except(self_platforms, keyword, outcomes) ==
    IF IsBlank(keyword) \/ self_platforms = <<>>
       \/ Head(outcomes).kind # "returns"
    THEN <<>>
    ELSE <<Entry(Head(self_platforms), Head(outcomes).products)>>
         \o search_all_platforms_no_except(Tail(self_platforms), keyword,
                                           Tail(outcomes))

\* outcomes[i] is what the i-th scraper called does.  self.platforms has
\* each name once, so every assignment adds an entry
search_all_platforms(self_platforms, keyword, outcomes) ==
    IF IsBlank(keyword)
    THEN <<>>
    ELSE Eager([i \in 1..Len(self_platforms) |->
             Entry(self_platforms[i], products_or_empty(outcomes[i]))])

\* the scrapers search_all_platforms calls, in order
search_all_platforms_calls(self_platforms, keyword) ==
    IF IsBlank(keyword) THEN <<>> ELSE self_platforms

\* results[platform_name] = products: a new key goes last, an old key keeps
\* its place
dict_set(results, entry) ==
    IF \E i \in 1..Len(results) : results[i].platform = entry.platform
    THEN Eager([i \in 1..Len(results) |->
             IF results[i].platform = entry.platform THEN entry
             ELSE results[i]])
    ELSE Append(results, entry)

\* the requested names that are initialized platforms, in request order
available(self_platforms, requested) ==
    SelectSeq(requested, LAMBDA name : name \in Range(self_platforms))

\* the loop of search_specific_platforms over the available names
RECURSIVE search_specific_loop(_, _, _)
search_specific_loop(results, names, outcomes) ==
    IF names = <<>>
    THEN results
    ELSE search_specific_loop(
             dict_set(results,
                      Entry(Head(names), products_or_empty(Head(outcomes)))),
             Tail(names), Tail(outcomes))

search_specific_platforms(self_platforms, keyword, requested, outcomes) ==
    IF IsBlank(keyword)
    THEN <<>>
    ELSE search_specific_loop(<<>>, available(self_platforms, requested),
                              outcomes)

\* the scrapers search_specific_platforms calls, in order
search_specific_platforms_calls(self_platforms, keyword, requested) ==
    IF IsBlank(keyword) THEN <<>> ELSE available(self_platforms, requested)

CallSearchAllPlatforms ==
    /\ op = "none"
    /\ \E keyword \in Keywords,
          outcomes \in [1..Len(scrapers) -> ScraperOutcomes] :
           /\ op' = "search_all_platforms"
           /\ args' = [keyword |-> keyword, outcomes |-> outcomes]
           /\ report' = search_all_platforms(scrapers, keyword, outcomes)
           /\ calls' = search_all_platforms_calls(scrapers, keyword)
           /\ raised' = FALSE
    /\ UNCHANGED <<products, apiVars, scraperVars>>

CallSearchSpecificPlatforms ==
    /\ op = "none"
    /\ \E keyword \in Keywords,
          requested \in UNION {[1..n -> RequestedNames] : n \in 0..MaxRequested} :
           \E outcomes \in [1..Len(available(scrapers, requested))
                               -> ScraperOutcomes] :
               /\ op' = "search_specific_platforms"
               /\ args' = [keyword |-> keyword, platforms |-> requested,
                           outcomes |-> outcomes]
               /\ report' = search_specific_platforms(scrapers, keyword,
                                                       requested, outcomes)
               /\ calls' = search_specific_platforms_calls(scrapers, keyword,
                                                           requested)
               /\ raised' = FALSE
    /\ UNCHANGED <<products, apiVars, scraperVars>>

\* MultiPlatformScraper.__init__: a scraper that cannot be built is left out
InitPlatforms ==
    /\ scrapers \in SubSequences(EnabledPlatforms)
    /\ max_retries = 0
    /\ attempt = 0
    /\ products = <<>>
    /\ op = "none"
    /\ args = <<>>
    /\ report = <<>>
    /\ calls = <<>>
    /\ raised = FALSE
    /\ search_history = <<>>
    /\ search_results = <<>>
    /\ sqlite_sequence = 0
    /\ background_tasks = <<>>
    /\ messages = <<>>

NextPlatforms ==
    \/ CallSearchAllPlatforms
    \/ CallSearchSpecificPlatforms
    \/ Return

SpecPlatforms == InitPlatforms /\ [][NextPlatforms]_vars

---------------------------------------------------------------------------
(* The request loop of a platform scraper *)

\* the largest config['retry_attempts'] of the model
MaxRetries == 3

\* what one session.request can do: answer with a status code, raise a
\* requests.RequestException (a timeout included), raise something else
RequestOutcomes == {
    [kind |-> "response", status_code |-> 200],
    [kind |-> "response", status_code |-> 429],
    [kind |-> "response", status_code |-> 500],
    [kind |-> "RequestException"],
    [kind |-> "Exception"]
}

\* fault variant: the loop runs once more than max_retries
attempts_left_one_more(attempt_, max_retries_) == attempt_ <= max_retries_

\* for attempt in range(self.max_retries): whether another pass follows
attempts_left(attempt_, max_retries_) == attempt_ < max_retries_

\* make_request has returned or raised
Finished == report # <<>> \/ raised

\* a scraper method calls self.make_request(url)
CallMakeRequest ==
    /\ op = "none"
    /\ op' = "make_request"
    /\ args' = <<>>
    /\ report' = <<>>
    /\ calls' = <<>>
    /\ raised' = FALSE
    /\ attempt' = 0
    /\ UNCHANGED <<products, apiVars, scrapers, max_retries>>

\* one pass of the loop: session.request and what follows it.  calls
\* collects the outcomes of the attempts made
Attempt ==
    /\ op = "make_request"
    /\ ~Finished
    /\ attempts_left(attempt, max_retries)
    /\ \E outcome \in RequestOutcomes :
           /\ calls' = Append(calls, outcome)
           /\ IF outcome.kind = "response" /\ outcome.status_code = 200
              THEN /\ report' = [response |-> Some(outcome)]
                   /\ UNCHANGED <<raised, attempt>>
              ELSE IF outcome.kind = "Exception"
              THEN /\ raised' = TRUE
                   /\ UNCHANGED <<report, attempt>>
              ELSE /\ attempt' = attempt + 1
                   /\ UNCHANGED <<report, raised>>
    /\ UNCHANGED <<products, op, args, apiVars, scrapers, max_retries>>

\* the loop is over: return None
ReturnNone ==
    /\ op = "make_request"
    /\ ~Finished
    /\ ~attempts_left(attempt, max_retries)
    /\ report' = [response |-> None]
    /\ UNCHANGED <<products, op, args, calls, raised, apiVars, scraperVars>>

\* the caller has the result (or the exception)
MakeRequestDone ==
    /\ op = "make_request"
    /\ Finished
    /\ op' = "none"
    /\ args' = <<>>
    /\ report' = <<>>
    /\ calls' = <<>>
    /\ raised' = FALSE
    /\ attempt' = 0
    /\ UNCHANGED <<products, apiVars, scrapers, max_retries>>

\* BaseEcommerceScraper.__init__: self.max_retries = config['retry_attempts']
InitRequest ==
    /\ max_retries \in 0..MaxRetries
    /\ attempt = 0
    /\ scrapers = <<>>
    /\ products = <<>>
    /\ op = "none"
    /\ args = <<>>
    /\ report = <<>>
    /\ calls = <<>>
    /\ raised = FALSE
    /\ search_history = <<>>
    /\ search_results = <<>>
    /\ sqlite_sequence = 0
    /\ background_tasks = <<>>
    /\ messages = <<>>

NextRequest ==
    \/ CallMakeRequest
    \/ Attempt
    \/ ReturnNone
    \/ MakeRequestDone

\* a running make_request goes on: every session.request ends, by its
\* timeout at the latest, and every sleep is finite
SpecRequest ==
    /\ InitRequest
    /\ [][NextRequest]_vars
    /\ WF_vars(Attempt)
    /\ WF_vars(ReturnNone)

---------------------------------------------------------------------------
(* Properties *)

Zero == RatInt(0)
InScoreRange(x) == RatLE(Zero, x) /\ RatLE(x, RatInt(100))

\* the number of positions of ps whose record satisfies Test
Count(ps, Test(_)) == Cardinality({i \in 1..Len(ps) : Test(ps[i])})

\* the sum of the values of field over the positions of ps that satisfy Test
TotalOf(ps, field, Test(_)) ==
    LET acc[i \in 0..Len(ps)] ==
            IF i = 0 THEN 0
            ELSE acc[i - 1] + (IF Test(ps[i]) THEN ps[i][field] ELSE 0)
    IN  acc[Len(ps)]

HasPrice(p) == "price" \in DOMAIN p /\ p.price > 0
HasRating(p) == "rating" \in DOMAIN p /\ p.rating > 0
HasSold(p) == "sold" \in DOMAIN p /\ p.sold > 0

\* the sum of the values f[k].field over the keys of a dict f
RECURSIVE SumField(_, _, _)
SumField(f, keys, field) ==
    IF keys = {} THEN 0
    ELSE LET k == CHOOSE x \in keys : TRUE
         IN  f[k][field] + SumField(f, keys \ {k}, field)

RECURSIVE SumValues(_, _)
SumValues(f, keys) ==
    IF keys = {} THEN 0
    ELSE LET k == CHOOSE x \in keys : TRUE
         IN  f[k] + SumValues(f, keys \ {k})

\* C1: the composite score of a group lies in [0, 100], in
\* _calculate_platform_metrics and in every entry of compare_platforms'
\* platform_scores; the score of an empty group is exactly 0.
C1_ScoreInRange ==
    /\ op = "calculate_platform_metrics" =>
          /\ InScoreRange(report.score)
          /\ (products = <<>> => report.score = Zero)
    /\ (op = "compare_platforms" /\ products # <<>>) =>
          \A k \in DOMAIN report.summary.platform_scores :
              InScoreRange(report.summary.platform_scores[k])

\* a platform of a comparison reaches the top of the range, 100, with more
\* than 20 records
C1_Witness ==
    /\ op = "compare_platforms"
    /\ Len(products) > 20
    /\ \E k \in DOMAIN report.summary.platform_scores :
           report.summary.platform_scores[k] = RatInt(100)

\* C2: for a non-empty group, score = price_score + rating_score +
\* availability_score, with price_score = 50 when no record has price > 0
\* and min(50, (200 / mean valid price) * 10) otherwise, rating_score =
\* (mean valid rating / 5) * 30 or 0 without a valid rating, and
\* availability_score = min(20, number of records).
C2_ScoreFormula ==
    (op = "calculate_platform_metrics" /\ products # <<>>) =>
        LET n == Count(products, HasPrice)
            total == TotalOf(products, "price", HasPrice)
            m == Count(products, HasRating)
            stars10 == TotalOf(products, "rating", HasRating)
            ps == report.price_score
            rs == report.rating_score
        IN  /\ n = 0 => ps = RatInt(50)
            /\ (n > 0 /\ 2000 * n >= 50 * total) => ps = RatInt(50)
            /\ (n > 0 /\ 2000 * n < 50 * total) =>
                   ps.num * total = 2000 * n * ps.den
            /\ m = 0 => rs = Zero
            /\ m > 0 => rs.num * 5 * m = 3 * stars10 * rs.den
            /\ report.availability_score =
                   (IF Len(products) <= 20 THEN Len(products) ELSE 20)
            /\ report.score.num * ps.den * rs.den =
                   report.score.den
                     * (ps.num * rs.den + rs.num * ps.den
                        + report.availability_score * ps.den * rs.den)

\* a group with valid ratings but no valid price gets price_score 50
C2_Witness ==
    /\ op = "calculate_platform_metrics"
    /\ products # <<>>
    /\ Count(products, HasPrice) = 0
    /\ Count(products, HasRating) > 0
    /\ report.price_score = RatInt(50)
    /\ RatLT(Zero, report.rating_score)

\* C3: every grouping of a non-empty collection (by platform, by shop_id, by
\* category) puts every record in exactly one group: the product counts of
\* the groups add up to the number of records.
C3_GroupsPartition ==
    /\ (op = "compare_platforms" /\ products # <<>>) =>
          SumField(report.platform_metrics, DOMAIN report.platform_metrics,
                   "product_count") = Len(products)
    /\ (op = "analyze_products" /\ products # <<>>) =>
          LET merchants == report.merchant_analysis.merchant_stats
              cats == report.category_analysis.category_stats
              lists == report.category_analysis.categories
              dist == report.platform_breakdown.platform_distribution
          IN  /\ SumField(merchants, DOMAIN merchants, "product_count")
                     = Len(products)
              /\ SumField(cats, DOMAIN cats, "product_count") = Len(products)
              /\ SumValues(dist, DOMAIN dist) = Len(products)
              /\ \A i \in 1..Len(products) :
                     Cardinality({c \in DOMAIN lists :
                         \E j \in 1..Len(lists[c]) :
                             lists[c][j] = products[i]}) = 1

\* an analysis with several groups of each kind, one of them with several
\* records
C3_Witness ==
    /\ op = "analyze_products"
    /\ products # <<>>
    /\ Cardinality(DOMAIN report.merchant_analysis.merchant_stats) > 1
    /\ Cardinality(DOMAIN report.category_analysis.category_stats) > 1
    /\ Cardinality(DOMAIN report.platform_breakdown.platform_distribution) > 1
    /\ Cardinality(DOMAIN report.platform_breakdown.platform_distribution)
           < Len(products)

\* C4: a record without a 'platform' (or 'shop_id') field is counted in the
\* group "unknown" of compare_platforms and _analyze_platform_breakdown
\* (of _analyze_merchants); it is never dropped.
C4_UnknownGroup ==
    LET NoPlatform(p) == "platform" \notin DOMAIN p \/ p.platform = "unknown"
        NoShop(p) == "shop_id" \notin DOMAIN p \/ p.shop_id = "unknown"
        Counted(f, n) == IF n = 0 THEN "unknown" \notin DOMAIN f
                                  ELSE "unknown" \in DOMAIN f
    IN  /\ (op = "compare_platforms" /\ products # <<>>) =>
              LET f == report.platform_metrics
                  n == Count(products, NoPlatform)
              IN  Counted(f, n) /\ (n > 0 => f["unknown"].product_count = n)
        /\ (op = "analyze_products" /\ products # <<>>) =>
              LET d == report.platform_breakdown.platform_distribution
                  f == report.merchant_analysis.merchant_stats
                  n == Count(products, NoPlatform)
                  m == Count(products, NoShop)
              IN  /\ Counted(d, n) /\ (n > 0 => d["unknown"] = n)
                  /\ Counted(f, m) /\ (m > 0 => f["unknown"].product_count = m)

\* a comparison of records with and without a platform
C4_Witness ==
    /\ op = "compare_platforms"
    /\ \E i \in 1..Len(products) : "platform" \notin DOMAIN products[i]
    /\ \E i \in 1..Len(products) : "platform" \in DOMAIN products[i]
    /\ "unknown" \in DOMAIN report.platform_metrics

PlatformKey(p) == IF "platform" \in DOMAIN p THEN p.platform ELSE "unknown"
ShopKey(p) == IF "shop_id" \in DOMAIN p THEN p.shop_id ELSE "unknown"

\* avg is the mean of the valid prices of group, and 0 when it has none
AvgOfValidPrices(group, avg) ==
    LET n == Count(group, HasPrice)
        total == TotalOf(group, "price", HasPrice)
    IN  IF n = 0 THEN avg = Zero
        ELSE avg.num * n = total * avg.den /\ RatLT(Zero, avg)

\* the records of ps at the positions whose key satisfies the test
Members(ps, InGroup(_)) == SelectSeq(ps, InGroup)

\* C5 as stated: a group (platform, shop, category) without a record of
\* price > 0 carries an explicit marker; its average price is never
\* reported as 0.
C5_Original_NoZeroAverage ==
    /\ (op = "compare_platforms" /\ products # <<>>) =>
          \A k \in DOMAIN report.platform_metrics :
              report.platform_metrics[k].avg_price # Zero
    /\ (op = "analyze_products" /\ products # <<>>) =>
          /\ \A k \in DOMAIN report.merchant_analysis.merchant_stats :
                 report.merchant_analysis.merchant_stats[k].avg_price # Zero
          /\ \A k \in DOMAIN report.category_analysis.category_stats :
                 report.category_analysis.category_stats[k].avg_price # Zero

\* C5 as amended: the average price of a group (platform, shop, category) is
\* the mean over the group's records with price > 0 only, and it is
\* reported as 0, without a marker, when the group has no such record; the
\* 'No valid price data found' marker is carried by the collection-level
\* price statistics (_analyze_prices) alone.
C5_GroupAveragePrice ==
    /\ (op = "compare_platforms" /\ products # <<>>) =>
          \A k \in DOMAIN report.platform_metrics :
              /\ "error" \notin DOMAIN report.platform_metrics[k]
              /\ AvgOfValidPrices(
                     Members(products, LAMBDA p : PlatformKey(p) = k),
                     report.platform_metrics[k].avg_price)
    /\ (op = "analyze_products" /\ products # <<>>) =>
          LET merchants == report.merchant_analysis.merchant_stats
              cats == report.category_analysis.category_stats
              lists == report.category_analysis.categories
          IN  /\ \A k \in DOMAIN merchants :
                     /\ "error" \notin DOMAIN merchants[k]
                     /\ AvgOfValidPrices(
                            Members(products, LAMBDA p : ShopKey(p) = k),
                            merchants[k].avg_price)
              /\ \A c \in DOMAIN cats :
                     /\ "error" \notin DOMAIN cats[c]
                     /\ AvgOfValidPrices(lists[c], cats[c].avg_price)
              /\ ("error" \in DOMAIN report.price_analysis)
                     <=> Count(products, HasPrice) = 0

\* a comparison with a platform that has no valid price (average 0) and a
\* platform that mixes records with and without a valid price
C5_Witness ==
    /\ op = "compare_platforms"
    /\ products # <<>>
    /\ \E k \in DOMAIN report.platform_metrics :
           /\ report.platform_metrics[k].avg_price = Zero
           /\ report.platform_metrics[k].product_count > 0
    /\ \E k \in DOMAIN report.platform_metrics :
           /\ RatLT(Zero, report.platform_metrics[k].avg_price)
           /\ \E i \in 1..Len(products) :
                  PlatformKey(products[i]) = k /\ ~HasPrice(products[i])

AnalysisKeys ==
    {"total_products", "price_analysis", "rating_analysis",
     "merchant_analysis", "category_analysis", "platform_breakdown"}

\* C6: analyze_products on a non-empty collection without a valid price
\* marks price_analysis alone: rating_analysis is a normal block whenever a
\* record has rating > 0, and the merchant, category and platform parts are
\* computed from the same records; symmetrically for ratings.
C6_PartialFailure ==
    (op = "analyze_products" /\ products # <<>>) =>
        LET np == Count(products, HasPrice)
            nr == Count(products, HasRating)
            merchants == report.merchant_analysis.merchant_stats
            cats == report.category_analysis.category_stats
            dist == report.platform_breakdown.platform_distribution
        IN  /\ DOMAIN report = AnalysisKeys
            /\ np = 0 =>
                   report.price_analysis = [error |-> "No valid price data found"]
            /\ nr = 0 =>
                   report.rating_analysis = [error |-> "No valid rating data found"]
            /\ np > 0 =>
                   /\ "error" \notin DOMAIN report.price_analysis
                   /\ report.price_analysis.total_products_with_price = np
            /\ nr > 0 =>
                   /\ "error" \notin DOMAIN report.rating_analysis
                   /\ report.rating_analysis.total_products_with_rating = nr
            /\ SumField(merchants, DOMAIN merchants, "product_count")
                   = Len(products)
            /\ SumField(cats, DOMAIN cats, "product_count") = Len(products)
            /\ SumValues(dist, DOMAIN dist) = Len(products)

\* every price is 0 or missing, some rating is valid, and the report has
\* the price marker beside a normal rating block
C6_Witness ==
    /\ op = "analyze_products"
    /\ products # <<>>
    /\ Count(products, HasPrice) = 0
    /\ Count(products, HasRating) > 0
    /\ "error" \in DOMAIN report.price_analysis
    /\ "average_rating" \in DOMAIN report.rating_analysis

\* the counts of a rating block are those of the records of group
RatingCounts(group, block) ==
    LET nr == Count(group, HasRating)
        high == Count(group, LAMBDA p : HasRating(p) /\ p.rating >= 40)
        low == Count(group, LAMBDA p : HasRating(p) /\ p.rating < 30)
        pct == block.high_rated_percentage
    IN  /\ block.total_products_with_rating = nr
        /\ block.high_rated_count = high
        /\ block.low_rated_count = low
        /\ pct.num * nr = 100 * high * pct.den
        /\ high + low <= nr
        /\ RatLE(Zero, pct) /\ RatLE(pct, RatInt(100))

\* C7: in a rating block only the records with rating > 0 count:
\* total_products_with_rating is their number, high_rated_count those with
\* rating >= 4.0, low_rated_count those with rating < 3.0, and
\* high_rated_percentage = high_rated_count / total_products_with_rating *
\* 100, so high + low <= total and the percentage is in [0, 100].
C7_RatingCounts ==
    /\ (op = "analyze_products" /\ products # <<>>
           /\ Count(products, HasRating) > 0) =>
          RatingCounts(products, report.rating_analysis)
    /\ (op = "analyze_affordable_bestsellers" /\ "summary" \in DOMAIN report
           /\ Count(report.all_top_sellers, HasRating) > 0) =>
          RatingCounts(report.all_top_sellers, report.rating_metrics)

\* a rating block over a high-rated record, a low-rated record and a record
\* without a valid rating
C7_Witness ==
    /\ op = "analyze_products"
    /\ products # <<>>
    /\ "error" \notin DOMAIN report.rating_analysis
    /\ report.rating_analysis.high_rated_count > 0
    /\ report.rating_analysis.low_rated_count > 0
    /\ report.rating_analysis.total_products_with_rating < Len(products)

SoldKey(p) == IF "sold" \in DOMAIN p THEN p.sold ELSE 0
HasSoldField(p) == "sold" \in DOMAIN p

Kept(ps, Keep(_)) ==
    LET acc[i \in 0..Len(ps)] ==
            IF i = 0 THEN <<>>
            ELSE IF Keep(ps[i]) THEN Append(acc[i - 1], ps[i]) ELSE acc[i - 1]
    IN  acc[Len(ps)]

\* C9: filter_by_price_range returns exactly the records with price > 0,
\* min_price <= price and (max_price is None or price <= max_price), in
\* input order; a record with price <= 0 or without a price is never in the
\* output, and every record of the bestseller pipeline's output has
\* 0 < price <= max_price.
C9_FilterExact ==
    /\ op = "filter_by_price_range" =>
          /\ report = Kept(products, LAMBDA r :
                 /\ HasPrice(r)
                 /\ args.min_price <= r.price
                 /\ (args.max_price = None
                        \/ \E m \in args.max_price : r.price <= m))
          /\ \A i \in 1..Len(report) : HasPrice(report[i])
    /\ (op = "analyze_affordable_bestsellers" /\ "summary" \in DOMAIN report) =>
          \A i \in 1..Len(report.all_top_sellers) :
              /\ HasPrice(report.all_top_sellers[i])
              /\ \A m \in args.max_price : report.all_top_sellers[i].price <= m

\* a filter call with a ceiling and a floor that keeps a record and drops a
\* record without a price, a record above the ceiling or below the floor
C9_Witness ==
    /\ op = "filter_by_price_range"
    /\ args.max_price = Some(50)
    /\ args.min_price = 40
    /\ Len(report) > 0
    /\ \E i \in 1..Len(products) : "price" \notin DOMAIN products[i]
    /\ \E i \in 1..Len(products) : HasPrice(products[i])
           /\ (products[i].price > 50 \/ products[i].price < 40)

\* C10: rank_by_sales (descending) returns a permutation of its input with
\* sold non-increasing in which records of equal sold keep their input
\* order.
C10_StableRanking ==
    (op = "rank_by_sales" /\ args.descending) =>
        /\ Len(report) = Len(products)
        /\ \A i \in 1..(Len(report) - 1) :
               SoldKey(report[i]) >= SoldKey(report[i + 1])
        /\ \A i \in 1..Len(products) :
               LET v == SoldKey(products[i])
               IN  Kept(report, LAMBDA r : SoldKey(r) = v)
                     = Kept(products, LAMBDA r : SoldKey(r) = v)

\* a descending ranking of a list where two different records of equal sold
\* stand before a record that sold more
C10_Witness ==
    /\ op = "rank_by_sales"
    /\ args.descending
    /\ \E i, j, k \in 1..Len(products) :
           /\ i < j /\ j < k
           /\ products[i] # products[j]
           /\ SoldKey(products[i]) = SoldKey(products[j])
           /\ SoldKey(products[k]) > SoldKey(products[i])

\* the number of positions of s that hold x
Occurrences(s, x) == Cardinality({i \in 1..Len(s) : s[i] = x})

\* the records of ps that pass the price filter of the bestseller pipeline
Affordable(ps, max_price) ==
    Kept(ps, LAMBDA r :
        HasPrice(r) /\ (max_price = None \/ \E m \in max_price : r.price <= m))

\* C11: in analyze_affordable_bestsellers with top_n >= 1 the analysed top
\* sellers are the first min(top_n, F) records of the ranked filtered list,
\* F being the number of records that pass the price filter:
\* top_sellers_count = min(top_n, F), total_affordable_products = F, and no
\* record left out has sold more than a record taken.
C11_TopSellersTruncation ==
    (op = "analyze_affordable_bestsellers" /\ args.top_n >= 1) =>
        LET aff == Affordable(products, args.max_price)
            F == Len(aff)
            n == IF args.top_n < F THEN args.top_n ELSE F
        IN  IF F = 0
            THEN DOMAIN report = {"error"}
            ELSE LET top == report.all_top_sellers
                 IN  /\ report.summary.total_affordable_products = F
                     /\ report.summary.top_sellers_count = n
                     /\ Len(top) = n
                     /\ \A i \in 1..(n - 1) :
                            SoldKey(top[i]) >= SoldKey(top[i + 1])
                     /\ \A i \in 1..n :
                            Occurrences(top, top[i]) <= Occurrences(aff, top[i])
                     /\ \A i \in 1..F :
                            (\E j \in 1..n : SoldKey(aff[i]) > SoldKey(top[j]))
                                => Occurrences(top, aff[i])
                                     = Occurrences(aff, aff[i])
                     /\ top = Take(rank_by_sales(aff, TRUE), n)

\* a bestseller report that leaves out affordable records, the first
\* affordable record of the input among them
C11_Witness ==
    /\ op = "analyze_affordable_bestsellers"
    /\ args.top_n >= 1
    /\ "summary" \in DOMAIN report
    /\ report.summary.top_sellers_count
           < report.summary.total_affordable_products
    /\ report.summary.total_affordable_products < Len(products)
    /\ Occurrences(report.all_top_sellers,
                   Affordable(products, args.max_price)[1]) = 0

\* the report of an empty filter result for the ceiling the call was given
EmptyFilterResult == [error |-> <<"No products found under RM", args.max_price>>]

\* C12: analyze_affordable_bestsellers called with an empty collection
\* reports "no products provided" before any other processing, and this
\* report differs from the one it returns when a non-empty collection has no
\* record under the price ceiling.
C12_EmptyInputDistinct ==
    (op = "analyze_affordable_bestsellers" /\ products = <<>>) =>
        /\ DOMAIN report = {"error"}
        /\ report # EmptyFilterResult
        /\ calls = <<>>

\* C13: when no input record passes the price filter,
\* analyze_affordable_bestsellers returns an error report naming the price
\* ceiling and halts there: ranking, truncation, the aggregations, the
\* categorizer and the recommendations are never run.
C13_HaltsOnEmptyFilter ==
    (op = "analyze_affordable_bestsellers"
       /\ Affordable(products, args.max_price) = <<>>) =>
        /\ report = EmptyFilterResult
        /\ calls = <<"filter_by_price_range">>

\* a bestseller call on a non-empty list with a record above the ceiling and
\* no record under it
C13_Witness ==
    /\ op = "analyze_affordable_bestsellers"
    /\ products # <<>>
    /\ args.max_price = Some(50)
    /\ \E i \in 1..Len(products) : HasPrice(products[i])
    /\ Affordable(products, args.max_price) = <<>>

\* C14: analyze_products and compare_platforms called with an empty
\* collection return at once a report that consists of an error field only;
\* no statistics, grouping or scoring is computed.
C14_EmptyInputReport ==
    /\ (op = "analyze_products" /\ products = <<>>) =>
          /\ report = [error |-> "No products provided for analysis"]
          /\ calls = <<>>
    /\ (op = "compare_platforms" /\ products = <<>>) =>
          /\ report = [error |-> "No products provided for comparison"]
          /\ calls = <<>>

\* compare_platforms has returned for an empty collection
C14_Witness ==
    /\ op = "compare_platforms"
    /\ products = <<>>
    /\ "error" \in DOMAIN report

ReportingOps ==
    {"analyze_products", "compare_platforms", "get_top_sellers",
     "analyze_affordable_bestsellers"}

\* C15: analyze_products, compare_platforms, get_top_sellers and
\* analyze_affordable_bestsellers never raise on a collection of well-typed
\* records and always return a report; an empty input, a collection without
\* a valid price, rating or sale, an empty filter result and an empty
\* truncation each come back as an error field of the report.
C15_NeverRaises ==
    (op \in ReportingOps) =>
        /\ raised = FALSE
        /\ DOMAIN report # {}
        /\ \A k \in DOMAIN report : k \in STRING
        /\ (op \in {"analyze_products", "compare_platforms"}
              /\ products = <<>>) => DOMAIN report = {"error"}
        /\ (op = "analyze_products" /\ products # <<>>) =>
              /\ (Count(products, HasPrice) = 0) =>
                    DOMAIN report.price_analysis = {"error"}
              /\ (Count(products, HasRating) = 0) =>
                    DOMAIN report.rating_analysis = {"error"}
        /\ (op = "get_top_sellers"
              /\ (args.top_n = 0
                    \/ products = <<>>
                    \/ (args.max_price # None
                          /\ Affordable(products, args.max_price) = <<>>)))
              => DOMAIN report = {"error"}
        /\ (op = "analyze_affordable_bestsellers") =>
              /\ (args.top_n = 0 \/ Affordable(products, args.max_price) = <<>>)
                    => DOMAIN report = {"error"}
              /\ ("all_top_sellers" \in DOMAIN report) =>
                    /\ (Count(report.all_top_sellers, HasSold) = 0) =>
                          DOMAIN report.sales_metrics = {"error"}
                    /\ (Count(report.all_top_sellers, HasRating) = 0) =>
                          DOMAIN report.rating_metrics = {"error"}
                    /\ DOMAIN report.price_metrics # {"error"}

\* a bestseller report over top sellers none of which has a sale, and so
\* with a sales section that is an error marker
C15_Witness ==
    /\ op = "analyze_affordable_bestsellers"
    /\ raised = FALSE
    /\ "all_top_sellers" \in DOMAIN report
    /\ Len(report.all_top_sellers) = 1
    /\ Count(report.all_top_sellers, HasSold) = 0
    /\ "error" \in DOMAIN report.sales_metrics

\* C17: no analysis operation changes its input: across every step the
\* caller's list holds the same records in the same order, each with the
\* same fields and values.
C17_InputUnchanged == [][products' = products]_vars

\* rank_by_sales has returned an order that differs from the order of the
\* input
C17_Witness ==
    /\ op = "rank_by_sales"
    /\ Len(products) > 1
    /\ report # products

\* the run of the categorizer a report holds: its input and its result
CategorizerRan ==
    \/ (op = "analyze_products" /\ "category_analysis" \in DOMAIN report)
    \/ (op = "analyze_affordable_bestsellers"
          /\ "category_insights" \in DOMAIN report)

CategorizerInput ==
    IF op = "analyze_products" THEN products ELSE report.all_top_sellers

CategorizerResult ==
    IF op = "analyze_products" THEN report.category_analysis
                               ELSE report.category_insights

\* the lowered name of a product has a keyword of the c-th table category
NameMatches(p, c) ==
    LET name == Lower(IF "name" \in DOMAIN p THEN p.name ELSE <<>>)
    IN  \E k \in 1..Len(category_keywords[c].keywords) :
            Contains(name, category_keywords[c].keywords[k])

\* for each record of the catalogue, the table categories its name matches
CatalogueMatches ==
    [p \in Catalogue |-> {c \in 1..Len(category_keywords) : NameMatches(p, c)}]

MatchesCategory(p, c) == c \in CatalogueMatches[p]

Unmatched(p) == CatalogueMatches[p] = {}

\* the place of a category in the declaration order of the table, 'others'
\* after all of them
TableIndex(category) ==
    IF \E c \in 1..Len(category_keywords) :
           category_keywords[c].category = category
    THEN CHOOSE c \in 1..Len(category_keywords) :
             category_keywords[c].category = category
    ELSE Len(category_keywords) + 1

\* C18: the categorizer puts each product in the first category of the
\* keyword table, in declaration order, that has a keyword occurring as a
\* case-insensitive substring of the product name, also when a later
\* category matches too.
C18_FirstMatchWins ==
    CategorizerRan =>
        LET categories == CategorizerResult.categories
        IN  \A p \in Range(CategorizerInput) :
                    \A c \in 1..Len(category_keywords) :
                        (MatchesCategory(p, c)
                           /\ \A b \in 1..(c - 1) : ~MatchesCategory(p, b))
                        => /\ category_keywords[c].category \in DOMAIN categories
                           /\ Occurrences(
                                  categories[category_keywords[c].category], p)
                                = Occurrences(CategorizerInput, p)

\* a product whose name has a keyword of electronics and, in another case,
\* a keyword of the later home_kitchen sits in the electronics bucket
C18_Witness ==
    /\ CategorizerRan
    /\ "electronics" \in DOMAIN CategorizerResult.categories
    /\ \E i \in 1..Len(CategorizerResult.categories["electronics"]) :
           LET p == CategorizerResult.categories["electronics"][i]
           IN  /\ MatchesCategory(p, TableIndex("home_kitchen"))
               /\ p.name # Lower(p.name)

\* the sum of the lengths of the buckets of a categories dict
RECURSIVE BucketSizes(_, _)
BucketSizes(categories, keys) ==
    IF keys = {} THEN 0
    ELSE LET k == CHOOSE x \in keys : TRUE
         IN  Len(categories[k]) + BucketSizes(categories, keys \ {k})

\* C19: a product whose name matches no keyword (an empty or missing name
\* included) is in the fallback bucket, and every input product is in exactly
\* one bucket: the buckets are disjoint, none is empty, and category_count is
\* the number of buckets in use.
C19_FallbackAndPartition ==
    CategorizerRan =>
        LET categories == CategorizerResult.categories
            ps == CategorizerInput
        IN  /\ \A p \in Range(ps) :
                   Unmatched(p) =>
                       /\ "others" \in DOMAIN categories
                       /\ Occurrences(categories["others"], p)
                            = Occurrences(ps, p)
            /\ \A p \in Range(ps) :
                   \E c \in DOMAIN categories :
                       /\ Occurrences(categories[c], p) = Occurrences(ps, p)
                       /\ \A d \in DOMAIN categories \ {c} :
                              Occurrences(categories[d], p) = 0
            /\ \A c \in DOMAIN categories :
                   /\ categories[c] # <<>>
                   /\ Range(categories[c]) \subseteq Range(ps)
            /\ BucketSizes(categories, DOMAIN categories) = Len(ps)
            /\ CategorizerResult.category_count = Cardinality(DOMAIN categories)
            /\ DOMAIN CategorizerResult.category_stats = DOMAIN categories

\* a run over a product with an empty name, a product without a name and a
\* product with a keyword in its name: two buckets, the fallback among them
C19_Witness ==
    /\ CategorizerRan
    /\ \E i, j, k \in 1..Len(CategorizerInput) :
           /\ "name" \notin DOMAIN CategorizerInput[i]
           /\ "name" \in DOMAIN CategorizerInput[j]
           /\ CategorizerInput[j].name = <<>>
           /\ ~Unmatched(CategorizerInput[k])
    /\ CategorizerResult.category_count = 2
    /\ Len(CategorizerResult.categories["others"]) >= 2

\* the total sold of the products of a bucket
BucketSold(category) ==
    TotalOf(CategorizerResult.categories[category], "sold", HasSoldField)

\* the position in the input of the first product of a bucket
FirstSeen(category) ==
    CHOOSE i \in 1..Len(CategorizerInput) :
        /\ CategorizerInput[i] = CategorizerResult.categories[category][1]
        /\ \A j \in 1..(i - 1) :
               CategorizerInput[j] # CategorizerResult.categories[category][1]

\* C20 as stated: top_category has the greatest total sold of the categories
\* in use, and of several categories with that total the one declared first
\* in the keyword table is selected, whatever the order of the input (a tie
\* with the fallback bucket, which the table does not declare, left open).
C20_Original_TableOrderTieBreak ==
    CategorizerRan =>
        \A top \in CategorizerResult.top_category :
            \A c \in DOMAIN CategorizerResult.categories :
                \/ BucketSold(c) < BucketSold(top)
                \/ (BucketSold(c) = BucketSold(top)
                      /\ ("others" \in {c, top}
                            \/ TableIndex(top) <= TableIndex(c)))

\* C20: top_category has the greatest total sold of the categories in use,
\* and of several categories with that total the one selected is the one
\* whose first product comes earliest in the input (the categories are
\* visited in the order they were first filled).
C20_TopCategory ==
    CategorizerRan =>
        /\ CategorizerResult.top_category # None
        /\ \A top \in CategorizerResult.top_category :
               /\ top \in DOMAIN CategorizerResult.categories
               /\ \A c \in DOMAIN CategorizerResult.categories :
                      \/ BucketSold(c) < BucketSold(top)
                      \/ (BucketSold(c) = BucketSold(top)
                            /\ FirstSeen(top) <= FirstSeen(c))

\* two categories tie on total sold and the selected one comes later in the
\* keyword table but earlier in the input
C20_Witness ==
    /\ CategorizerRan
    /\ \E top \in CategorizerResult.top_category :
           \E c \in DOMAIN CategorizerResult.categories \ {top} :
               /\ BucketSold(c) = BucketSold(top)
               /\ BucketSold(top) > 0
               /\ TableIndex(c) < TableIndex(top)
               /\ FirstSeen(top) < FirstSeen(c)

\* the k-th smallest of the sold counts of the records of ps that satisfy
\* Test (a record without the field counts as 0)
KthSold(ps, k, Test(_)) ==
    CHOOSE v \in {SoldKey(ps[i]) : i \in {j \in 1..Len(ps) : Test(ps[j])}} :
        /\ Count(ps, LAMBDA p : Test(p) /\ SoldKey(p) < v) < k
        /\ k <= Count(ps, LAMBDA p : Test(p) /\ SoldKey(p) <= v)

\* x is the median of the sold counts of the records of ps that satisfy
\* Test: the mean of the two middle values
IsMedianSold(x, ps, Test(_)) ==
    LET n == Count(ps, Test)
    IN  x.num * 2 =
            (KthSold(ps, (n + 1) \div 2, Test) + KthSold(ps, (n \div 2) + 1, Test))
                * x.den

AnyRecord(p) == TRUE

BestsellerKeys ==
    {"summary", "price_metrics", "sales_metrics", "rating_metrics",
     "platform_distribution", "category_insights", "top_products",
     "recommendations"}

\* C22: a report of analyze_affordable_bestsellers is either an error report
\* whose only top-level key is 'error', or a full report with all of summary,
\* price_metrics, sales_metrics, rating_metrics, platform_distribution,
\* category_insights, top_products and recommendations and without 'error';
\* a report of analyze_products is either only 'error' or has all of
\* price_analysis, rating_analysis, merchant_analysis, category_analysis and
\* platform_breakdown and no 'error'.
C22_ReportShapes ==
    /\ (op = "analyze_affordable_bestsellers") =>
          \/ DOMAIN report = {"error"}
          \/ (BestsellerKeys \subseteq DOMAIN report
                /\ "error" \notin DOMAIN report)
    /\ (op = "analyze_products") =>
          \/ DOMAIN report = {"error"}
          \/ (AnalysisKeys \subseteq DOMAIN report
                /\ "error" \notin DOMAIN report)

\* the error report of get_top_sellers (nothing left after the truncation)
\* returned by the pipeline for a list with affordable records
C22_Witness ==
    /\ op = "analyze_affordable_bestsellers"
    /\ Affordable(products, args.max_price) # <<>>
    /\ args.top_n = 0
    /\ DOMAIN report = {"error"}

\* the position in the input of the first record of a platform
FirstOfPlatform(k) ==
    CHOOSE i \in 1..Len(products) :
        /\ PlatformKey(products[i]) = k
        /\ \A j \in 1..(i - 1) : PlatformKey(products[j]) # k

\* C25: in compare_platforms on a non-empty collection, best_platform is a
\* platform of the input whose score is maximal; of several platforms with
\* the maximal score the one whose first record comes earliest in the input
\* is chosen; platform_scores has one entry per distinct platform, equal to
\* the score in that platform's platform_metrics.
C25_BestPlatform ==
    (op = "compare_platforms" /\ products # <<>>) =>
        LET pm == report.platform_metrics
            best == report.summary.best_platform
            present == {PlatformKey(products[i]) : i \in 1..Len(products)}
        IN  /\ DOMAIN pm = present
            /\ best \in present
            /\ \A k \in present :
                   \/ RatLT(pm[k].score, pm[best].score)
                   \/ (pm[k].score = pm[best].score
                         /\ FirstOfPlatform(best) <= FirstOfPlatform(k))
            /\ DOMAIN report.summary.platform_scores = present
            /\ \A k \in present :
                   report.summary.platform_scores[k] = pm[k].score
            /\ report.summary.total_platforms = Cardinality(present)

\* two platforms tie on the maximal score and a third scores less
C25_Witness ==
    /\ op = "compare_platforms"
    /\ products # <<>>
    /\ \E k \in DOMAIN report.platform_metrics :
           /\ k # report.summary.best_platform
           /\ report.platform_metrics[k].score
                = report.platform_metrics[report.summary.best_platform].score

\* C30: in a report of analyze_affordable_bestsellers that is not an error
\* report, price_metrics is never the 'no valid price data' marker: every
\* top seller passed the price filter, so total_products_with_price is
\* top_sellers_count, 0 < min_price <= max_price of the metrics <= the
\* price ceiling, and top_products is the first min(10, top_sellers_count)
\* records of the ranked top sellers.
C30_PriceMetricsOfTopSellers ==
    (op = "analyze_affordable_bestsellers" /\ "summary" \in DOMAIN report) =>
        LET pm == report.price_metrics
            top == report.all_top_sellers
            n == report.summary.top_sellers_count
            shown == IF n < 10 THEN n ELSE 10
        IN  /\ "error" \notin DOMAIN pm
            /\ n = Len(top)
            /\ n > 0
            /\ \A i \in 1..n : HasPrice(top[i])
            /\ pm.total_products_with_price = n
            /\ 0 < pm.min_price
            /\ pm.min_price <= pm.max_price
            /\ \A m \in args.max_price : pm.max_price <= m
            /\ \A i \in 1..n :
                   pm.min_price <= top[i].price /\ top[i].price <= pm.max_price
            /\ \E i, j \in 1..n :
                   top[i].price = pm.min_price /\ top[j].price = pm.max_price
            /\ Len(report.top_products) = shown
            /\ \A i \in 1..shown : report.top_products[i] = top[i]

\* a report over more than ten top sellers of different prices under a
\* ceiling that some input record is above
C30_Witness ==
    /\ op = "analyze_affordable_bestsellers"
    /\ "summary" \in DOMAIN report
    /\ args.max_price # None
    /\ report.summary.top_sellers_count > 10
    /\ Len(report.top_products) = 10
    /\ report.price_metrics.min_price < report.price_metrics.max_price
    /\ Len(products) > report.summary.total_affordable_products

---------------------------------------------------------------------------
(* Properties of the API *)

\* the rows saved for one search
RowsFor(search_id) ==
    SelectSeq(search_results, LAMBDA row : row.search_id = search_id)

\* the scraped products of a finished task that pass its price ceiling
AffordableScraped(task) ==
    Affordable(all_products(task.scraped), task.request.max_price)

\* C23: every product saved for a best-seller search has
\* 0 < price <= max_price, also when no scraped product is under the ceiling
C23_Original_SavedAreAffordable ==
    \A i \in 1..Len(search_results) :
        LET row == search_results[i]
            request == background_tasks[row.search_id].request
        IN  request.is_bestseller =>
                /\ row.price > 0
                /\ \A m \in request.max_price : row.price <= m

\* C24: a completed best-seller search with top_n = N has saved
\* min(N, number of affordable scraped products) products, its result_count
C24_Original_TopNSaved ==
    \A search_id \in DOMAIN search_history :
        LET record == search_history[search_id]
            task == background_tasks[search_id]
            affordable == Len(AffordableScraped(task))
        IN  (task.request.is_bestseller /\ record.status = "completed") =>
                \A n \in task.request.top_n :
                    /\ record.result_count = IF n < affordable THEN n
                                             ELSE affordable
                    /\ Len(RowsFor(search_id)) = record.result_count

\* C26: every search_results row references an existing
\* search_history row
C26_Original_ForeignKey ==
    \A i \in 1..Len(search_results) :
        search_results[i].search_id \in DOMAIN search_history

---------------------------------------------------------------------------
(* Properties of the multi-platform scraper *)

\* the names of a results dict, in order
PlatformsOf(results) == Eager([i \in 1..Len(results) |-> results[i].platform])

\* the last place a name has in a list of names
LastPlace(names, name) ==
    CHOOSE i \in 1..Len(names) :
        names[i] = name /\ \A j \in (i + 1)..Len(names) : names[j] # name

\* C28: with a non-blank keyword search_all_platforms returns one entry per
\* initialized platform, in declaration order, having called every scraper
\* in that order; a scraper that fails contributes an empty list.  With a
\* blank keyword the mapping is empty and no scraper is called.
\* search_specific_platforms does the same for the requested names that are
\* initialized platforms and gives the other names no entry.  Neither raises.
C28_OneEntryPerPlatform ==
    /\ op = "search_all_platforms" =>
           /\ ~raised
           /\ IF IsBlank(args.keyword)
              THEN report = <<>> /\ calls = <<>>
              ELSE /\ calls = scrapers
                   /\ PlatformsOf(report) = scrapers
                   /\ \A i \in 1..Len(scrapers) :
                          report[i].products =
                              IF args.outcomes[i].kind = "returns"
                              THEN args.outcomes[i].products
                              ELSE <<>>
    /\ op = "search_specific_platforms" =>
           /\ ~raised
           /\ IF IsBlank(args.keyword)
              THEN report = <<>> /\ calls = <<>>
              ELSE LET asked == SelectSeq(args.platforms, LAMBDA name :
                                    \E i \in 1..Len(scrapers) :
                                        scrapers[i] = name)
                   IN  /\ calls = asked
                       /\ Range(PlatformsOf(report)) = Range(asked)
                       /\ Len(report) = Cardinality(Range(asked))
                       /\ \A i \in 1..Len(report) :
                              LET outcome == args.outcomes[
                                      LastPlace(asked, report[i].platform)]
                              IN  report[i].products =
                                      IF outcome.kind = "returns"
                                      THEN outcome.products
                                      ELSE <<>>

\* the first scraper raises and the last one still delivers its products
C28_Witness ==
    /\ op = "search_all_platforms"
    /\ Len(report) >= 2
    /\ args.outcomes[1].kind = "raises"
    /\ report[1].products = <<>>
    /\ report[Len(report)].products # <<>>

---------------------------------------------------------------------------
(* Properties of the request loop *)

\* an attempt answered with status 200
IsOk(outcome) == outcome.kind = "response" /\ outcome.status_code = 200

\* C29: make_request makes at most max_retries attempts and always ends; it
\* returns a response only when an attempt got status 200, which is then
\* the last attempt; it returns None only after max_retries attempts that
\* all ended in another status or a request exception; a request exception
\* never makes it raise
C29_TerminatesWithinRetries ==
    /\ [](op = "make_request" =>
            /\ Len(calls) <= max_retries
            /\ \A i \in 1..Len(calls) :
                   IsOk(calls[i]) =>
                       /\ i = Len(calls)
                       /\ report # <<>>
                       /\ report.response = Some(calls[i])
            /\ report # <<>> =>
                   IF report.response = None
                   THEN /\ Len(calls) = max_retries
                        /\ \A i \in 1..Len(calls) :
                               \/ calls[i].kind = "RequestException"
                               \/ /\ calls[i].kind = "response"
                                  /\ calls[i].status_code # 200
                   ELSE calls # <<>> /\ IsOk(calls[Len(calls)])
            /\ raised =>
                   /\ calls # <<>>
                   /\ calls[Len(calls)].kind = "Exception"
            /\ (calls # <<>> /\ calls[Len(calls)].kind = "RequestException")
                   => ~raised)
    /\ (op = "make_request") ~> (op = "make_request" /\ Finished)

\* every one of max_retries > 1 attempts failed, the last by a request
\* exception, and make_request has returned None
C29_Witness ==
    /\ op = "make_request"
    /\ max_retries > 1
    /\ Len(calls) = max_retries
    /\ calls[Len(calls)].kind = "RequestException"
    /\ calls[1].kind = "response"
    /\ report # <<>>
    /\ report.response = None

====
